---- MODULE Spec2Model ----
(***************************************************************************)
(* A model of the c64emu core: the MOS 6510 interpreter (mos6510.rs), the  *)
(* CIA 1 timer (cia1.rs), the VIC-II raster counters (vic_ii.rs) and the   *)
(* address decoder of the machine (main.rs).                               *)
(*                                                                         *)
(* Numbers are written in decimal with the source's hexadecimal in the     *)
(* comment next to them.  Bytes are 0..255, words 0..65535.                *)
(*                                                                         *)
(* Rust's integer arithmetic depends on the build: an overflowing +, - on  *)
(* u8/u16/i8 aborts the process in a debug build and wraps in a release    *)
(* build.  Every operator below computes the wrapped value and records in  *)
(* the field "ovf" that an overflow happened; the actions then offer both  *)
(* outcomes.  An index outside an array aborts in every build ("oob").     *)
(***************************************************************************)
EXTENDS Integers, Sequences, FiniteSets, TLC

VARIABLES
    cpu,            \* Mos6510: state (registers, status register), wait_cycles, irq
    memory,         \* Machine.memory, the cells that differ from the fill byte
    fill,           \* the byte held by every memory cell not listed in memory
    io,             \* Machine.io, the cells that differ from 0
    cia,            \* Cia1: timer_a, timer_a_start, ics, tacr
    vic,            \* VicII: raster_line, x_coord, registers, char-ROM overlay switch
    vic_bank_start, \* Machine.vic_bank_start
    panicked,       \* the process was aborted by a Rust panic
    pre,            \* history: cpu, cia and the IRQ input as they were before the last step
    last,           \* history: what the last step did
    hist,           \* history: counts kept across steps
    ticks           \* history: number of steps taken so far

vars == <<cpu, memory, fill, io, cia, vic, vic_bank_start, panicked, pre, last, hist, ticks>>

----------------------------------------------------------------------------
(* Bytes, words and bit operations                                         *)

Byte == 0..255

Bit(v, i) == (v \div (2 ^ i)) % 2

And8(a, b) ==
    LET f[i \in 0..8] == IF i = 8 THEN 0 ELSE Bit(a, i) * Bit(b, i) * (2 ^ i) + f[i + 1]
    IN  f[0]

Or8(a, b) ==
    LET f[i \in 0..8] ==
            IF i = 8 THEN 0
            ELSE (IF Bit(a, i) + Bit(b, i) > 0 THEN 2 ^ i ELSE 0) + f[i + 1]
    IN  f[0]

Xor8(a, b) ==
    LET f[i \in 0..8] ==
            IF i = 8 THEN 0
            ELSE (IF Bit(a, i) # Bit(b, i) THEN 2 ^ i ELSE 0) + f[i + 1]
    IN  f[0]

\* "as i8": the signed reading of a byte
AsI8(v) == IF v >= 128 THEN v - 256 ELSE v

\* "as u8" / "as u16" of a (possibly negative) integer
AsU8(n) == n % 256
AsU16(n) == n % 65536

\* A sparse array: the cells listed in f, and dflt everywhere else
Cell(f, dflt, a) == IF a \in DOMAIN f THEN f[a] ELSE dflt

Store(f, a, v) == [k \in (DOMAIN f) \cup {a} |-> IF k = a THEN v ELSE f[k]]

\* "let x = e in F(x)" with e evaluated once, before F
Let(e, F(_)) == CHOOSE y \in {F(x) : x \in {e}} : TRUE

\* Record that an overflowing operation happened in this step
Chk(m, overflowed) == [m EXCEPT !.ovf = @ \/ overflowed]

----------------------------------------------------------------------------
(* cia1.rs                                                                 *)

TIMER_A_UNDERFLOW_INTERRUPT == 1
START_TIMER == 1
STOP_ON_UNDERFLOW == 8

Cia1_new == [timer_a |-> 0, timer_a_start |-> 0, ics |-> 0, tacr |-> 0]

Cia1_write(c, addr, value) ==
    CASE addr = 56324 ->                                            \* 0xDC04
            [c EXCEPT !.timer_a_start = (@ \div 256) * 256 + value]
      [] addr = 56325 ->                                            \* 0xDC05
            [c EXCEPT !.timer_a_start = (@ % 256) + value * 256]
      [] addr = 56333 -> [c EXCEPT !.ics = value]                   \* 0xDC0D
      [] addr = 56334 -> [c EXCEPT !.tacr = value]                  \* 0xDC0E
      [] OTHER -> c

\* The byte Cia1::read returns
Cia1_read_value(c, addr) ==
    CASE addr = 56324 -> c.timer_a % 256
      [] addr = 56325 -> c.timer_a \div 256
      [] addr = 56333 -> c.ics
      [] addr = 56334 -> c.tacr
      [] OTHER -> 0

\* The Cia1 that Cia1::read leaves behind: reading 0xDC0D clears ics
Cia1_read_state(c, addr) ==
    IF addr = 56333 THEN [c EXCEPT !.ics = 0] ELSE c

\* Returns the new Cia1 and whether Some(Effect::IRQ) was returned
\* An underflow that restarts the timer whatever the mode
timer_a_underflowContinuous(c) ==
    [cia |-> [c EXCEPT !.timer_a = c.timer_a_start,
                       !.ics = Or8(@, TIMER_A_UNDERFLOW_INTERRUPT)],
     irq |-> And8(c.ics, TIMER_A_UNDERFLOW_INTERRUPT) # 0]

timer_a_underflow(c) ==
    LET c1 == IF And8(c.tacr, STOP_ON_UNDERFLOW) # 0
              THEN [c EXCEPT !.tacr = And8(@, 255 - START_TIMER)]
              ELSE [c EXCEPT !.timer_a = c.timer_a_start]
        result == And8(c.ics, TIMER_A_UNDERFLOW_INTERRUPT) # 0
    IN  [cia |-> [c1 EXCEPT !.ics = Or8(@, TIMER_A_UNDERFLOW_INTERRUPT)], irq |-> result]

Cia1_tick(c) ==
    IF And8(c.tacr, START_TIMER) # 0
    THEN IF c.timer_a >= 1
         THEN [cia |-> [c EXCEPT !.timer_a = @ - 1], irq |-> FALSE]
         ELSE timer_a_underflow(c)
    ELSE [cia |-> c, irq |-> FALSE]

----------------------------------------------------------------------------
(* vic_ii.rs: registers                                                    *)

NumVicRegisters == 47

Registers_new == [i \in 0..(NumVicRegisters - 1) |-> 0]

\* Registers::write indexes data[addr - 0xD000]; an index past the array aborts
Registers_write(m, addr, value) ==
    IF addr - 53248 < NumVicRegisters
    THEN [m EXCEPT !.vic.registers[addr - 53248] = value]
    ELSE [m EXCEPT !.oob = TRUE]

\* border_color without the & 0x0F
border_colorUnmasked(v) == v.registers[32]

border_color(v) == v.registers[32] % 16

\* The register read of the VIC: index addr & 0x3F, 0 for an unimplemented one
VicII_read(m, addr) ==
    LET idx == addr % 64
    IN  IF idx < NumVicRegisters THEN m.vic.registers[idx] ELSE 0

----------------------------------------------------------------------------
(* main.rs: the address decoder                                            *)

\* read_mem that takes 0xD400..0xDFFF from main memory instead of io
read_memNoShadow(m, addr) ==
    IF addr >= 53248 /\ addr < 54272 THEN VicII_read(m, addr)
    ELSE Cell(m.memory, m.fill, addr)

read_mem(m, addr) ==
    IF addr >= 53248 /\ addr < 54272 THEN VicII_read(m, addr)       \* 0xD000..0xD3FF
    ELSE IF addr >= 54272 /\ addr < 57344 THEN Cell(m.io, 0, addr)  \* 0xD400..0xDFFF
    ELSE Cell(m.memory, m.fill, addr)

\* write_mem that takes the bank number from the byte without inverting it
write_memBankDirect(m, addr, value) ==
    IF (addr >= 40960 /\ addr < 49152) \/ addr >= 57344
    THEN m
    ELSE IF addr >= 53248 /\ addr < 54272
    THEN Registers_write(m, addr, value)
    ELSE IF addr >= 54272 /\ addr < 57344
    THEN LET m1 == [m EXCEPT !.io = Store(@, addr, value)]
         IN  IF addr = 56576
             THEN [m1 EXCEPT !.vic_bank_start = 16384 * (value % 4),
                             !.vic.char_rom_enabled = (value % 2 = 1)]
             ELSE m1
    ELSE [m EXCEPT !.memory = Store(@, addr, value)]

\* write_mem that takes the overlay enable from bit 1 of the byte
write_memOverlayBit1(m, addr, value) ==
    IF (addr >= 40960 /\ addr < 49152) \/ addr >= 57344
    THEN m
    ELSE IF addr >= 53248 /\ addr < 54272
    THEN Registers_write(m, addr, value)
    ELSE IF addr >= 54272 /\ addr < 57344
    THEN LET m1 == [m EXCEPT !.io = Store(@, addr, value)]
         IN  IF addr = 56576
             THEN [m1 EXCEPT !.vic_bank_start = 16384 * (3 - (value % 4)),
                             !.vic.char_rom_enabled = ((value \div 2) % 2 = 1)]
             ELSE m1
    ELSE [m EXCEPT !.memory = Store(@, addr, value)]

\* write_mem without the test for the ROM windows
write_memRomWritable(m, addr, value) ==
    IF addr >= 53248 /\ addr < 54272
    THEN Registers_write(m, addr, value)
    ELSE IF addr >= 54272 /\ addr < 57344
    THEN LET m1 == [m EXCEPT !.io = Store(@, addr, value)]
         IN  IF addr = 56576
             THEN [m1 EXCEPT !.vic_bank_start = 16384 * (3 - (value % 4)),
                             !.vic.char_rom_enabled = (value % 2 = 1)]
             ELSE m1
    ELSE [m EXCEPT !.memory = Store(@, addr, value)]

write_mem(m, addr, value) ==
    IF (addr >= 40960 /\ addr < 49152) \/ addr >= 57344             \* ROM windows
    THEN m
    ELSE IF addr >= 53248 /\ addr < 54272
    THEN Registers_write(m, addr, value)
    ELSE IF addr >= 54272 /\ addr < 57344
    THEN LET m1 == [m EXCEPT !.io = Store(@, addr, value)]
         IN  IF addr = 56576                                        \* 0xDD00
             THEN [m1 EXCEPT !.vic_bank_start = 16384 * (3 - (value % 4)),
                             !.vic.char_rom_enabled = (value % 2 = 1)]
             ELSE m1
    ELSE [m EXCEPT !.memory = Store(@, addr, value)]

\* The bus the CPU sees: 0xDC00..0xDCFF is the CIA, the rest is the decoder above
InCia(addr) == addr >= 56320 /\ addr <= 56575

\* ReadView::read: the byte
BusRead(m, addr) ==
    IF InCia(addr) THEN Cia1_read_value(m.cia, addr) ELSE read_mem(m, addr)

\* ReadView::read: the machine after the read
BusTouch(m, addr) ==
    IF InCia(addr)
    THEN [m EXCEPT !.cia = Cia1_read_state(@, addr), !.icr_read = @ \/ (addr = 56333)]
    ELSE m

\* WriteView::write
BusWrite(m, addr, value) ==
    IF InCia(addr) THEN [m EXCEPT !.cia = Cia1_write(@, addr, value)]
    ELSE write_mem(m, addr, value)

\* One read through the bus: the byte and the machine after it
Rd(m, addr) == [m |-> BusTouch(m, addr), val |-> BusRead(m, addr)]

----------------------------------------------------------------------------
(* mos6510.rs: helpers.  m is the machine during one CPU step: the state   *)
(* variables plus ovf, oob (see the head of the module), effect (the       *)
(* Option<Effect> the step returns), error (the step returned Err), kind   *)
(* and opcode (what the CPU did), icr_read (0xDC0D was read) and slice     *)
(* (the pixels the VIC drew).                                              *)

RESET_VECTOR_ADDR == 65532                                          \* 0xfffc

None == [some |-> FALSE, addr |-> 0, value |-> 0]
WriteMem(addr, value) == [some |-> TRUE, addr |-> addr, value |-> value]

same_page(a, b) == (a \div 256) = (b \div 256)

Mos6510_new ==
    [program_counter |-> 0, stack_pointer |-> 0,
     negative_flag |-> FALSE, overflow_flag |-> FALSE, break_flag |-> FALSE,
     decimal_mode_flag |-> FALSE, interrupt_disable_flag |-> FALSE,
     zero_flag |-> FALSE, carry_flag |-> FALSE,
     accumulator |-> 0, index_x |-> 0, index_y |-> 0,
     wait_cycles |-> 0, irq |-> FALSE]

\* The value reset() stores in program_counter
\* reset with the two vector bytes taken in the other order
resetSwapped(m) ==
    LET lo == Rd(m, RESET_VECTOR_ADDR)
        hi == Rd(lo.m, RESET_VECTOR_ADDR + 1)
    IN  [hi.m EXCEPT !.cpu.program_counter = hi.val + lo.val * 256]

reset(m) ==
    LET lo == Rd(m, RESET_VECTOR_ADDR)
        hi == Rd(lo.m, RESET_VECTOR_ADDR + 1)
    IN  [hi.m EXCEPT !.cpu.program_counter = lo.val + hi.val * 256]

effective_stack_pointer(m) == 256 + m.cpu.stack_pointer

\* stack_pointer -= 1 and stack_pointer += 1 on a u8
DecSP(m) == Chk([m EXCEPT !.cpu.stack_pointer = (@ - 1) % 256], m.cpu.stack_pointer = 0)
IncSP(m) == Chk([m EXCEPT !.cpu.stack_pointer = (@ + 1) % 256], m.cpu.stack_pointer = 255)

\* program_counter += n on a u16
AdvancePC(m, n) ==
    Chk([m EXCEPT !.cpu.program_counter = (@ + n) % 65536], m.cpu.program_counter + n > 65535)

\* mem.read(program_counter + n)
RdPC(m, n) ==
    Rd(Chk(m, m.cpu.program_counter + n > 65535), (m.cpu.program_counter + n) % 65536)

push8(m, value) == DecSP(BusWrite(m, effective_stack_pointer(m), value))

push16(m, value) ==
    LET m1 == DecSP(BusWrite(m, effective_stack_pointer(m), value \div 256))
    IN  DecSP(BusWrite(m1, effective_stack_pointer(m1), value % 256))

pop8(m) ==
    LET m1 == IncSP(m)
    IN  Rd(m1, effective_stack_pointer(m1))

pop16(m) ==
    LET lo == pop8(m)
        hi == pop8(lo.m)
    IN  [m |-> hi.m, val |-> hi.val * 256 + lo.val]

read_absolute_addr(m) ==
    LET lo == RdPC(m, 1)
        hi == RdPC(lo.m, 2)
    IN  [m |-> hi.m, val |-> lo.val + hi.val * 256]

read_relative_addr(m) ==
    LET off == RdPC(m, 1)
    IN  [m |-> off.m, val |-> AsU16(m.cpu.program_counter + AsI8(off.val))]

read_immediate(m) == RdPC(m, 1)

read_zeropage_addr(m) == RdPC(m, 1)

\* (vector_addr, vector + index_y) as base and val
read_indirect_y_indexed_addr(m) ==
    LET va == read_zeropage_addr(m)
        lo == Rd(va.m, va.val)
        hi == Rd(lo.m, va.val + 1)
        vector == hi.val * 256 + lo.val
    IN  [m |-> Chk(hi.m, vector + m.cpu.index_y > 65535),
         base |-> va.val,
         val |-> (vector + m.cpu.index_y) % 65536]

\* (base_addr, base_addr.wrapping_add(index_x)) as base and val
read_indexed_zeropage_x(m) ==
    LET b == read_immediate(m)
    IN  [m |-> b.m, base |-> b.val, val |-> (b.val + m.cpu.index_x) % 256]

\* abs_addr + index on a u16, as used by the absolute,X and absolute,Y modes
AbsIndexed(m, index) ==
    LET ab == read_absolute_addr(m)
    IN  [m |-> Chk(ab.m, ab.val + index > 65535), base |-> ab.val,
         val |-> (ab.val + index) % 65536]

set_negative_flag(m, value) == [m EXCEPT !.cpu.negative_flag = (And8(value, 128) # 0)]

\* A set_zero_flag that leaves the flag as it was
set_zero_flag_kept(m, value) == m

set_zero_flag(m, value) == [m EXCEPT !.cpu.zero_flag = (value = 0)]

SetNZ(m, value) == set_zero_flag(set_negative_flag(m, value), value)

compare(m, operand1, operand2) ==
    SetNZ([m EXCEPT !.cpu.carry_flag = (operand1 >= operand2)], AsU8(operand1 - operand2))

add_with_carry(m, operand) ==
    LET accumulator == m.cpu.accumulator
        added == accumulator + operand + (IF m.cpu.carry_flag THEN 1 ELSE 0)
        value == added % 256
        m1 == [m EXCEPT !.cpu.accumulator = value,
                        !.cpu.carry_flag = (Bit(added, 8) = 1)]
    IN  [SetNZ(m1, value) EXCEPT
            !.cpu.overflow_flag =
                (AsI8(accumulator) >= 0 /\ AsI8(operand) >= 0 /\ AsI8(value) < 0)]

\* A subtraction whose carry also accounts for the borrow coming in
subtract_with_carryBorrow(m, operand) ==
    LET accumulator == m.cpu.accumulator
        borrow == IF m.cpu.carry_flag THEN 0 ELSE 1
        subtracted == AsI8(accumulator) - AsI8(operand) - borrow
        value == AsU8(subtracted)
        m1 == [m EXCEPT !.cpu.accumulator = value,
                        !.cpu.carry_flag = (accumulator >= operand + borrow)]
    IN  [SetNZ(m1, value) EXCEPT
            !.cpu.overflow_flag = (subtracted < -128 \/ subtracted > 127)]

subtract_with_carry(m, operand) ==
    LET accumulator == m.cpu.accumulator
        subtracted == AsI8(accumulator) - AsI8(operand) - (IF m.cpu.carry_flag THEN 0 ELSE 1)
        value == AsU8(subtracted)
        m1 == [m EXCEPT !.cpu.accumulator = value,
                        !.cpu.carry_flag = (accumulator >= operand)]
    IN  [SetNZ(m1, value) EXCEPT
            !.cpu.overflow_flag = (subtracted < -128 \/ subtracted > 127)]

shift_left_memory(m, addr) ==
    LET operand == Rd(m, addr)
        shifted == operand.val * 2
        value == shifted % 256
        m1 == BusWrite(operand.m, addr, value)
    IN  SetNZ([m1 EXCEPT !.cpu.carry_flag = (Bit(shifted, 8) = 1),
                         !.effect = WriteMem(addr, value)], value)

rotate_right_memory(m, addr) ==
    LET operand == Rd(m, addr)
        value == ((IF m.cpu.carry_flag THEN 256 ELSE 0) + operand.val) \div 2
        m1 == BusWrite(operand.m, addr, value)
    IN  SetNZ([m1 EXCEPT !.cpu.carry_flag = (operand.val % 2 = 1),
                         !.effect = WriteMem(addr, value)], value)

decrement_memory(m, addr) ==
    LET operand == Rd(m, addr)
        value == (operand.val - 1) % 256
        m1 == BusWrite(operand.m, addr, value)
    IN  SetNZ([m1 EXCEPT !.effect = WriteMem(addr, value)], value)

or_with_accumulator(m, operand) ==
    LET value == Or8(m.cpu.accumulator, operand)
    IN  SetNZ([m EXCEPT !.cpu.accumulator = value], value)

status_register_value(m) ==
      (IF m.cpu.carry_flag             THEN 1   ELSE 0)
    + (IF m.cpu.zero_flag              THEN 2   ELSE 0)
    + (IF m.cpu.interrupt_disable_flag THEN 4   ELSE 0)
    + (IF m.cpu.decimal_mode_flag      THEN 8   ELSE 0)
    + (IF m.cpu.break_flag             THEN 16  ELSE 0)
    + (IF m.cpu.overflow_flag          THEN 64  ELSE 0)
    + (IF m.cpu.negative_flag          THEN 128 ELSE 0)

set_status_register(m, value) ==
    [m EXCEPT !.cpu.carry_flag             = (Bit(value, 0) = 1),
              !.cpu.zero_flag              = (Bit(value, 1) = 1),
              !.cpu.interrupt_disable_flag = (Bit(value, 2) = 1),
              !.cpu.decimal_mode_flag      = (Bit(value, 3) = 1),
              !.cpu.break_flag             = (Bit(value, 4) = 1),
              !.cpu.overflow_flag          = (Bit(value, 6) = 1),
              !.cpu.negative_flag          = (Bit(value, 7) = 1)]

\* The common tail of an opcode's arm: program_counter += n; wait_cycles = w
Done(m, n, w) == [AdvancePC(m, n) EXCEPT !.cpu.wait_cycles = w]

----------------------------------------------------------------------------
(* mos6510.rs: run_instruction, one operator per arm of the match.  Each   *)
(* takes the machine after the opcode byte was read.                       *)

\* The shape shared by the loads: a register is set from a byte that was read
LoadA(r) == SetNZ([r.m EXCEPT !.cpu.accumulator = r.val], r.val)
LoadX(r) == SetNZ([r.m EXCEPT !.cpu.index_x = r.val], r.val)
LoadY(r) == SetNZ([r.m EXCEPT !.cpu.index_y = r.val], r.val)

\* mem.write(addr, value) with Some(Effect::WriteMem { addr, value }) returned
StoreTo(m, addr, value) == [BusWrite(m, addr, value) EXCEPT !.effect = WriteMem(addr, value)]

\* wait_cycles = if same_page(program_counter, addr) { w } else { w + 1 }
PageWait(m, addr, w) ==
    [m EXCEPT !.cpu.wait_cycles = IF same_page(m.cpu.program_counter, addr) THEN w ELSE w + 1]

\* The arm shared by the seven relative branches
Branch(m, taken) ==
    LET rel == read_relative_addr(m)
        addr == (rel.val + 2) % 65536
        m1 == Chk(rel.m, rel.val + 2 > 65535)
    IN  IF taken
        THEN PageWait([m1 EXCEPT !.cpu.program_counter = addr], addr, 3)
        ELSE Done(m1, 2, 2)

\* BIT: Z from A & M, N and V from bits 7 and 6 of M
BitTest(r) ==
    [set_zero_flag(r.m, And8(r.m.cpu.accumulator, r.val)) EXCEPT
        !.cpu.negative_flag = (Bit(r.val, 7) = 1),
        !.cpu.overflow_flag = (Bit(r.val, 6) = 1)]

\* operand >> 1 written back to memory
ShiftRightMemory(m, addr) ==
    LET operand == Rd(m, addr)
        value == operand.val \div 2
        m1 == SetNZ(BusWrite(operand.m, addr, value), value)
    IN  [m1 EXCEPT !.cpu.carry_flag = (operand.val % 2 = 1), !.effect = WriteMem(addr, value)]

Op05(m) ==                                                          \* ORA zp
    LET addr == read_zeropage_addr(m)
        operand == Rd(addr.m, addr.val)
    IN  Done(or_with_accumulator(operand.m, operand.val), 2, 3)

Op06(m) ==                                                          \* ASL zp
    LET addr == read_zeropage_addr(m)
    IN  Done(shift_left_memory(addr.m, addr.val), 2, 5)

Op08(m) == Done(push8(m, status_register_value(m)), 1, 3)           \* PHP

Op09(m) ==                                                          \* ORA #
    LET operand == read_immediate(m)
    IN  Done(or_with_accumulator(operand.m, operand.val), 2, 2)

Op0A(m) ==                                                          \* ASL A
    LET operand == m.cpu.accumulator
        value == (operand * 2) % 256
    IN  Done(SetNZ([m EXCEPT !.cpu.carry_flag = (And8(operand, 128) > 0)], value), 1, 2)

Op0D(m) ==                                                          \* ORA abs
    LET addr == read_absolute_addr(m)
        operand == Rd(addr.m, addr.val)
    IN  Done(or_with_accumulator(operand.m, operand.val), 3, 4)

Op10(m) == Branch(m, m.cpu.negative_flag = FALSE)                   \* BPL

Op16(m) ==                                                          \* ASL zp,X
    LET ad == read_indexed_zeropage_x(m)
    IN  Done(shift_left_memory(ad.m, ad.val), 2, 6)

Op18(m) == Done([m EXCEPT !.cpu.carry_flag = FALSE], 1, 2)          \* CLC

Op20(m) ==                                                          \* JSR
    LET pc == m.cpu.program_counter
        m1 == push16(Chk(m, pc + 2 > 65535), (pc + 2) % 65536)
        addr == read_absolute_addr(m1)
    IN  [addr.m EXCEPT !.cpu.program_counter = addr.val, !.cpu.wait_cycles = 6]

Op24(m) ==                                                          \* BIT zp
    LET addr == read_zeropage_addr(m)
    IN  Done(BitTest(Rd(addr.m, addr.val)), 2, 3)

Op28(m) ==                                                          \* PLP
    LET value == pop8(m)
    IN  Done(set_status_register(value.m, value.val), 1, 4)

Op29(m) ==                                                          \* AND #
    LET operand == read_immediate(m)
        value == And8(m.cpu.accumulator, operand.val)
    IN  Done(SetNZ([operand.m EXCEPT !.cpu.accumulator = value], value), 2, 2)

Op2A(m) ==                                                          \* ROL A
    LET shifted == m.cpu.accumulator * 2
        value == Or8(shifted % 256, IF m.cpu.carry_flag THEN 1 ELSE 0)
    IN  Done(SetNZ([m EXCEPT !.cpu.carry_flag = (Bit(shifted, 8) = 1),
                             !.cpu.accumulator = value], value), 1, 2)

Op2C(m) ==                                                          \* BIT abs
    LET addr == read_absolute_addr(m)
    IN  Done(BitTest(Rd(addr.m, addr.val)), 3, 4)

Op30(m) == Branch(m, m.cpu.negative_flag)                           \* BMI

Op38(m) == Done([m EXCEPT !.cpu.carry_flag = TRUE], 1, 2)           \* SEC

Op40(m) ==                                                          \* RTI
    LET sr == pop8(m)
        pc == pop16(sr.m)
    IN  [set_status_register(pc.m, sr.val) EXCEPT !.cpu.program_counter = pc.val]

Op45(m) ==                                                          \* EOR zp
    LET addr == read_zeropage_addr(m)
        operand == Rd(addr.m, addr.val)
        value == Xor8(m.cpu.accumulator, operand.val)
    IN  Done(SetNZ([operand.m EXCEPT !.cpu.accumulator = value], value), 2, 2)

Op46(m) ==                                                          \* LSR zp
    LET addr == read_zeropage_addr(m)
    IN  Done(ShiftRightMemory(addr.m, addr.val), 2, 5)

Op48(m) == Done(push8(m, m.cpu.accumulator), 1, 3)                  \* PHA

Op49(m) ==                                                          \* EOR #
    LET operand == read_immediate(m)
        value == Xor8(m.cpu.accumulator, operand.val)
    IN  Done(SetNZ([operand.m EXCEPT !.cpu.accumulator = value], value), 2, 2)

Op4A(m) ==                                                          \* LSR A
    LET operand == m.cpu.accumulator
        value == operand \div 2
    IN  Done(SetNZ([m EXCEPT !.cpu.carry_flag = (operand % 2 = 1)], value), 1, 2)

Op4C(m) ==                                                          \* JMP abs
    LET addr == read_absolute_addr(m)
    IN  [addr.m EXCEPT !.cpu.program_counter = addr.val, !.cpu.wait_cycles = 3]

Op56(m) ==                                                          \* LSR zp,X
    LET ad == read_indexed_zeropage_x(m)
    IN  Done(ShiftRightMemory(ad.m, ad.val), 2, 5)

Op58(m) == Done([m EXCEPT !.cpu.interrupt_disable_flag = FALSE], 1, 2)  \* CLI

\* RTS that leaves out the + 1
Op60NoIncrement(m) ==
    LET pc == pop16(m)
    IN  [pc.m EXCEPT !.cpu.program_counter = pc.val, !.cpu.wait_cycles = 6]

Op60(m) ==                                                          \* RTS
    LET pc == pop16(m)
    IN  [Chk(pc.m, pc.val + 1 > 65535) EXCEPT
            !.cpu.program_counter = (pc.val + 1) % 65536, !.cpu.wait_cycles = 6]

Op65(m) ==                                                          \* ADC zp
    LET addr == read_zeropage_addr(m)
        operand == Rd(addr.m, addr.val)
    IN  Done(add_with_carry(operand.m, operand.val), 2, 2)

Op66(m) ==                                                          \* ROR zp
    LET addr == read_zeropage_addr(m)
    IN  Done(rotate_right_memory(addr.m, addr.val), 2, 5)

Op68(m) ==                                                          \* PLA
    LET value == pop8(m)
    IN  Done([value.m EXCEPT !.cpu.accumulator = value.val], 1, 4)

Op69(m) ==                                                          \* ADC #
    LET operand == read_immediate(m)
    IN  Done(add_with_carry(operand.m, operand.val), 2, 2)

Op6A(m) ==                                                          \* ROR A
    LET operand == m.cpu.accumulator
        value == ((IF m.cpu.carry_flag THEN 256 ELSE 0) + operand) \div 2
    IN  Done(SetNZ([m EXCEPT !.cpu.accumulator = value,
                             !.cpu.carry_flag = (operand % 2 = 1)], value), 1, 2)

Op6C(m) ==                                                          \* JMP (ind)
    LET vector_addr == read_absolute_addr(m)
        vector_lo == Rd(vector_addr.m, vector_addr.val)
        vector_hi == Rd(Chk(vector_lo.m, vector_addr.val + 1 > 65535),
                        (vector_addr.val + 1) % 65536)
    IN  [vector_hi.m EXCEPT !.cpu.program_counter = vector_hi.val * 256 + vector_lo.val,
                            !.cpu.wait_cycles = 5]

Op70(m) == Branch(m, m.cpu.overflow_flag)                           \* BVS

Op76(m) ==                                                          \* ROR zp,X
    LET ad == read_indexed_zeropage_x(m)
    IN  Done(rotate_right_memory(ad.m, ad.val), 2, 6)

Op78(m) == Done([m EXCEPT !.cpu.interrupt_disable_flag = TRUE], 1, 2)   \* SEI

Op79(m) ==                                                          \* ADC abs,Y
    LET ad == AbsIndexed(m, m.cpu.index_y)
        operand == Rd(ad.m, ad.val)
    IN  PageWait(AdvancePC(add_with_carry(operand.m, operand.val), 3), ad.val, 4)

Op8D(m) ==                                                          \* STA abs
    LET addr == read_absolute_addr(m)
    IN  Done(StoreTo(addr.m, addr.val, m.cpu.accumulator), 3, 4)

Op85(m) ==                                                          \* STA zp
    LET addr == read_zeropage_addr(m)
    IN  Done(StoreTo(addr.m, addr.val, m.cpu.accumulator), 2, 3)

Op84(m) ==                                                          \* STY zp
    LET addr == read_zeropage_addr(m)
    IN  Done(StoreTo(addr.m, addr.val, m.cpu.index_y), 2, 3)

Op86(m) ==                                                          \* STX zp
    LET addr == read_zeropage_addr(m)
    IN  Done(StoreTo(addr.m, addr.val, m.cpu.index_x), 2, 3)

Op88(m) ==                                                          \* DEY
    LET value == (m.cpu.index_y - 1) % 256
    IN  Done(SetNZ([m EXCEPT !.cpu.index_y = value], value), 1, 2)

Op8A(m) ==                                                          \* TXA
    LET value == m.cpu.index_x
    IN  Done(SetNZ([m EXCEPT !.cpu.accumulator = value], value), 1, 2)

Op8C(m) ==                                                          \* STY abs
    LET addr == read_absolute_addr(m)
    IN  Done(StoreTo(addr.m, addr.val, m.cpu.index_y), 3, 4)

Op8E(m) ==                                                          \* STX abs
    LET addr == read_absolute_addr(m)
    IN  Done(StoreTo(addr.m, addr.val, m.cpu.index_x), 3, 4)

Op90(m) == Branch(m, m.cpu.carry_flag = FALSE)                      \* BCC

Op91(m) ==                                                          \* STA (zp),Y
    LET ad == read_indirect_y_indexed_addr(m)
    IN  Done(StoreTo(ad.m, ad.val, m.cpu.accumulator), 2, 6)

Op94(m) ==                                                          \* STY zp,X
    LET ad == read_indexed_zeropage_x(m)
    IN  Done(StoreTo(ad.m, ad.val, m.cpu.index_y), 2, 4)

Op95(m) ==                                                          \* STA zp,X
    LET ad == read_indexed_zeropage_x(m)
    IN  Done(StoreTo(ad.m, ad.val, m.cpu.accumulator), 2, 4)

Op98(m) ==                                                          \* TYA
    LET value == m.cpu.index_y
    IN  Done(SetNZ([m EXCEPT !.cpu.accumulator = value], value), 1, 2)

Op99(m) ==                                                          \* STA abs,Y
    LET ad == AbsIndexed(m, m.cpu.index_y)
    IN  Done(StoreTo(ad.m, ad.val, m.cpu.accumulator), 3, 5)

Op9A(m) == Done([m EXCEPT !.cpu.stack_pointer = m.cpu.index_x], 1, 2)   \* TXS

Op9D(m) ==                                                          \* STA abs,X
    LET ad == AbsIndexed(m, m.cpu.index_x)
    IN  Done(StoreTo(ad.m, ad.val, m.cpu.accumulator), 3, 5)

OpA5(m) ==                                                          \* LDA zp
    LET addr == read_zeropage_addr(m)
    IN  Done(LoadA(Rd(addr.m, addr.val)), 2, 3)

OpAA(m) ==                                                          \* TAX
    LET value == m.cpu.accumulator
    IN  Done(SetNZ([m EXCEPT !.cpu.index_x = value], value), 1, 2)

OpA0(m) == Done(LoadY(read_immediate(m)), 2, 2)                     \* LDY #

OpA2(m) == Done(LoadX(RdPC(m, 1)), 2, 2)                            \* LDX #

OpA4(m) ==                                                          \* LDY zp
    LET addr == read_zeropage_addr(m)
    IN  Done(LoadY(Rd(addr.m, addr.val)), 2, 3)

OpA6(m) ==                                                          \* LDX zp
    LET addr == read_zeropage_addr(m)
    IN  Done(LoadX(Rd(addr.m, addr.val)), 2, 3)

OpA8(m) ==                                                          \* TAY
    LET value == m.cpu.accumulator
    IN  Done(SetNZ([m EXCEPT !.cpu.index_y = value], value), 1, 2)

OpA9(m) == Done(LoadA(RdPC(m, 1)), 2, 2)                            \* LDA #

OpAC(m) ==                                                          \* LDY abs
    LET addr == read_absolute_addr(m)
    IN  Done(LoadY(Rd(addr.m, addr.val)), 3, 4)

OpAD(m) ==                                                          \* LDA abs
    LET addr == read_absolute_addr(m)
    IN  Done(LoadA(Rd(addr.m, addr.val)), 3, 4)

OpAE(m) ==                                                          \* LDX abs
    LET addr == read_absolute_addr(m)
    IN  Done(LoadX(Rd(addr.m, addr.val)), 3, 4)

OpB0(m) == Branch(m, m.cpu.carry_flag)                              \* BCS

OpB1(m) ==                                                          \* LDA (zp),Y
    LET ad == read_indirect_y_indexed_addr(m)
    IN  PageWait(AdvancePC(LoadA(Rd(ad.m, ad.val)), 2), ad.val, 5)

OpB4(m) ==                                                          \* LDY zp,X
    LET ad == read_indexed_zeropage_x(m)
    IN  Done(LoadY(Rd(ad.m, ad.val)), 2, 4)

OpB5(m) ==                                                          \* LDA zp,X
    LET ad == read_indexed_zeropage_x(m)
    IN  Done(LoadA(Rd(ad.m, ad.val)), 2, 4)

OpB9(m) ==                                                          \* LDA abs,Y
    LET ad == AbsIndexed(m, m.cpu.index_y)
    IN  PageWait(AdvancePC(LoadA(Rd(ad.m, ad.val)), 3), ad.val, 4)

OpBA(m) ==                                                          \* TSX
    LET value == m.cpu.stack_pointer
    IN  Done(SetNZ([m EXCEPT !.cpu.index_x = value], value), 1, 2)

OpBD(m) ==                                                          \* LDA abs,X
    LET ad == AbsIndexed(m, m.cpu.index_x)
    IN  PageWait(AdvancePC(LoadA(Rd(ad.m, ad.val)), 3), ad.val, 4)

OpC0(m) ==                                                          \* CPY #
    LET operand2 == read_immediate(m)
    IN  Done(compare(operand2.m, m.cpu.index_y, operand2.val), 2, 2)

OpC4(m) ==                                                          \* CPY zp
    LET addr == read_zeropage_addr(m)
        operand2 == Rd(addr.m, addr.val)
    IN  Done(compare(operand2.m, m.cpu.index_y, operand2.val), 2, 3)

OpC5(m) ==                                                          \* CMP zp
    LET addr == read_zeropage_addr(m)
        operand2 == Rd(addr.m, addr.val)
    IN  Done(compare(operand2.m, m.cpu.accumulator, operand2.val), 2, 3)

OpC6(m) ==                                                          \* DEC zp
    LET addr == read_zeropage_addr(m)
    IN  Done(decrement_memory(addr.m, addr.val), 2, 6)

OpC8(m) ==                                                          \* INY
    LET value == (m.cpu.index_y + 1) % 256
    IN  Done(SetNZ([m EXCEPT !.cpu.index_y = value], value), 1, 2)

OpC9(m) ==                                                          \* CMP #
    LET operand2 == read_immediate(m)
    IN  Done(compare(operand2.m, m.cpu.accumulator, operand2.val), 2, 2)

OpCA(m) ==                                                          \* DEX
    LET value == (m.cpu.index_x - 1) % 256
    IN  Done(SetNZ([m EXCEPT !.cpu.index_x = value], value), 1, 2)

OpCD(m) ==                                                          \* CMP abs
    LET addr == read_absolute_addr(m)
        operand2 == Rd(addr.m, addr.val)
    IN  Done(compare(operand2.m, m.cpu.accumulator, operand2.val), 3, 4)

OpD0(m) == Branch(m, m.cpu.zero_flag = FALSE)                       \* BNE

OpD1(m) ==                                                          \* CMP (zp),Y
    LET ad == read_indirect_y_indexed_addr(m)
        operand2 == Rd(ad.m, ad.val)
    IN  PageWait(AdvancePC(compare(operand2.m, m.cpu.accumulator, operand2.val), 2), ad.val, 5)

OpD8(m) == Done([m EXCEPT !.cpu.decimal_mode_flag = FALSE], 1, 2)   \* CLD

OpDD(m) ==                                                          \* CMP abs,X
    LET ad == AbsIndexed(m, m.cpu.index_x)
        operand2 == Rd(ad.m, ad.val)
    IN  PageWait(AdvancePC(compare(operand2.m, m.cpu.accumulator, operand2.val), 3), ad.val, 4)

OpE0(m) ==                                                          \* CPX #
    LET operand2 == read_immediate(m)
    IN  Done(compare(operand2.m, m.cpu.index_x, operand2.val), 2, 2)

OpE4(m) ==                                                          \* CPX zp
    LET addr == read_zeropage_addr(m)
        operand2 == Rd(addr.m, addr.val)
    IN  Done(compare(operand2.m, m.cpu.index_x, operand2.val), 2, 3)

OpE5(m) ==                                                          \* SBC zp
    LET addr == read_zeropage_addr(m)
        operand == Rd(addr.m, addr.val)
    IN  Done(subtract_with_carry(operand.m, operand.val), 2, 3)

OpE6(m) ==                                                          \* INC zp
    LET addr == read_zeropage_addr(m)
        operand == Rd(addr.m, addr.val)
        value == (operand.val + 1) % 256
        m1 == Chk(BusWrite(operand.m, addr.val, value), operand.val + 1 > 255)
    IN  Done(SetNZ([m1 EXCEPT !.effect = WriteMem(addr.val, value)], value), 2, 5)

OpE8(m) ==                                                          \* INX
    LET value == (m.cpu.index_x + 1) % 256
    IN  Done(SetNZ([m EXCEPT !.cpu.index_x = value], value), 1, 2)

OpE9(m) ==                                                          \* SBC #
    LET operand == read_immediate(m)
    IN  Done(subtract_with_carry(operand.m, operand.val), 2, 2)

OpEC(m) ==                                                          \* CPX abs
    LET addr == read_absolute_addr(m)
        operand2 == Rd(addr.m, addr.val)
    IN  Done(compare(operand2.m, m.cpu.index_x, operand2.val), 3, 4)

OpF0(m) == Branch(m, m.cpu.zero_flag)                               \* BEQ

\* No message, and format!("UNKNOWN OPCODE: 0x{:02X}", opcode): the text and the
\* values formatted into it
NoMsg == [text |-> "", args |-> <<>>]
UnknownOpcode(opcode) == [text |-> "UNKNOWN OPCODE", args |-> <<opcode>>]

RunOpcode(opcode, m) ==
    CASE opcode = 5   -> Op05(m) [] opcode = 6   -> Op06(m) [] opcode = 8   -> Op08(m)
      [] opcode = 9   -> Op09(m) [] opcode = 10  -> Op0A(m) [] opcode = 13  -> Op0D(m)
      [] opcode = 16  -> Op10(m) [] opcode = 22  -> Op16(m) [] opcode = 24  -> Op18(m)
      [] opcode = 32  -> Op20(m) [] opcode = 36  -> Op24(m) [] opcode = 40  -> Op28(m)
      [] opcode = 41  -> Op29(m) [] opcode = 42  -> Op2A(m) [] opcode = 44  -> Op2C(m)
      [] opcode = 48  -> Op30(m) [] opcode = 56  -> Op38(m) [] opcode = 64  -> Op40(m)
      [] opcode = 69  -> Op45(m) [] opcode = 70  -> Op46(m) [] opcode = 72  -> Op48(m)
      [] opcode = 73  -> Op49(m) [] opcode = 74  -> Op4A(m) [] opcode = 76  -> Op4C(m)
      [] opcode = 86  -> Op56(m) [] opcode = 88  -> Op58(m) [] opcode = 96  -> Op60(m)
      [] opcode = 101 -> Op65(m) [] opcode = 102 -> Op66(m) [] opcode = 104 -> Op68(m)
      [] opcode = 105 -> Op69(m) [] opcode = 106 -> Op6A(m) [] opcode = 108 -> Op6C(m)
      [] opcode = 112 -> Op70(m) [] opcode = 118 -> Op76(m) [] opcode = 120 -> Op78(m)
      [] opcode = 121 -> Op79(m) [] opcode = 141 -> Op8D(m) [] opcode = 133 -> Op85(m)
      [] opcode = 132 -> Op84(m) [] opcode = 134 -> Op86(m) [] opcode = 136 -> Op88(m)
      [] opcode = 138 -> Op8A(m) [] opcode = 140 -> Op8C(m) [] opcode = 142 -> Op8E(m)
      [] opcode = 144 -> Op90(m) [] opcode = 145 -> Op91(m) [] opcode = 148 -> Op94(m)
      [] opcode = 149 -> Op95(m) [] opcode = 152 -> Op98(m) [] opcode = 153 -> Op99(m)
      [] opcode = 154 -> Op9A(m) [] opcode = 157 -> Op9D(m) [] opcode = 165 -> OpA5(m)
      [] opcode = 170 -> OpAA(m) [] opcode = 160 -> OpA0(m) [] opcode = 162 -> OpA2(m)
      [] opcode = 164 -> OpA4(m) [] opcode = 166 -> OpA6(m) [] opcode = 168 -> OpA8(m)
      [] opcode = 169 -> OpA9(m) [] opcode = 172 -> OpAC(m) [] opcode = 173 -> OpAD(m)
      [] opcode = 174 -> OpAE(m) [] opcode = 176 -> OpB0(m) [] opcode = 177 -> OpB1(m)
      [] opcode = 180 -> OpB4(m) [] opcode = 181 -> OpB5(m) [] opcode = 185 -> OpB9(m)
      [] opcode = 186 -> OpBA(m) [] opcode = 189 -> OpBD(m) [] opcode = 192 -> OpC0(m)
      [] opcode = 196 -> OpC4(m) [] opcode = 197 -> OpC5(m) [] opcode = 198 -> OpC6(m)
      [] opcode = 200 -> OpC8(m) [] opcode = 201 -> OpC9(m) [] opcode = 202 -> OpCA(m)
      [] opcode = 205 -> OpCD(m) [] opcode = 208 -> OpD0(m) [] opcode = 209 -> OpD1(m)
      [] opcode = 216 -> OpD8(m) [] opcode = 221 -> OpDD(m) [] opcode = 224 -> OpE0(m)
      [] opcode = 228 -> OpE4(m) [] opcode = 229 -> OpE5(m) [] opcode = 230 -> OpE6(m)
      [] opcode = 232 -> OpE8(m) [] opcode = 233 -> OpE9(m) [] opcode = 236 -> OpEC(m)
      [] opcode = 240 -> OpF0(m)
      [] OTHER -> [m EXCEPT !.error = TRUE, !.kind = "error", !.msg = UnknownOpcode(opcode)]

run_instruction(m) ==
    Let(Rd(m, m.cpu.program_counter),
        LAMBDA opcode :
            Let([opcode.m EXCEPT !.kind = "instr", !.opcode = opcode.val],
                LAMBDA m1 : RunOpcode(opcode.val, m1)))

\* The address the interrupt entry of tick jumps to
IrqEntryAddr == 65352                                               \* 0xFF48

\* A test that lets the counter run one tick longer: wait_cycles < 0
WaitElapsedLate(m) == m.cpu.wait_cycles < 0

\* An interrupt test that ignores interrupt_disable_flag
IrqTakenUnmasked(m) == m.cpu.irq

\* if self.wait_cycles <= 0
WaitElapsed(m) == m.cpu.wait_cycles <= 0

\* if self.irq && !self.state.status_register.interrupt_disable_flag
IrqTaken(m) == m.cpu.irq /\ ~m.cpu.interrupt_disable_flag

\* An interrupt entry that pushes the status byte before the return address
IrqEntryStatusFirst(m) ==
    LET pc == m.cpu.program_counter
        sr == status_register_value(m)
        m1 == push16(push8(m, sr), pc)
    IN  [m1 EXCEPT !.cpu.program_counter = IrqEntryAddr, !.cpu.irq = FALSE, !.kind = "irq"]

\* The interrupt entry of tick
IrqEntry(m) ==
    LET pc == m.cpu.program_counter
        sr == status_register_value(m)
        m1 == push8(push16(m, pc), sr)
    IN  [m1 EXCEPT !.cpu.program_counter = IrqEntryAddr, !.cpu.irq = FALSE, !.kind = "irq"]

\* self.wait_cycles -= 1 on an i8
DecWait(m) ==
    Chk([m EXCEPT !.cpu.wait_cycles = IF @ = -128 THEN 127 ELSE @ - 1],
        m.cpu.wait_cycles = -128)

Mos6510_tick(m, irq) ==
    Let(DecWait(IF irq THEN [m EXCEPT !.cpu.irq = TRUE] ELSE m),
        LAMBDA m2 :
            IF WaitElapsed(m2)
            THEN IF IrqTaken(m2) THEN IrqEntry(m2) ELSE run_instruction(m2)
            ELSE m2)

----------------------------------------------------------------------------
(* vic_ii.rs: tick.  A colour is an index of PALETTE; the character        *)
(* pixels are RGB(255,255,255) and RGB(0,0,0), the colours of entries 1    *)
(* and 0.                                                                  *)

first_line == 51
last_line == 250
first_x_coord == 96
last_x_coord == 415

\* The character generator image loaded from char.rom, byte i
char_rom(i) == (i * 7 + 3) % 256

\* The memory the VIC sees: 14 address bits below vic_bank_start, with the
\* character ROM laid over 0x1000..0x1FFF when the overlay is on
VicView_read(m, addr) ==
    IF m.vic.char_rom_enabled /\ addr >= 4096 /\ addr < 8192
    THEN char_rom(addr - 4096)
    ELSE Cell(m.memory, m.fill, (m.vic_bank_start + (addr % 16384)) % 65536)

InDisplayWindow(v) ==
    /\ v.raster_line >= first_line /\ v.raster_line <= last_line
    /\ v.x_coord >= first_x_coord /\ v.x_coord <= last_x_coord

InBorder(v) ==
    \/ (v.raster_line >= 8 /\ v.raster_line < first_line)
    \/ (v.raster_line > last_line /\ v.raster_line <= 300)          \* 0x12C
    \/ (v.x_coord >= 52 /\ v.x_coord < first_x_coord)
    \/ (v.x_coord > last_x_coord /\ v.x_coord <= 454)

\* The eight pixels of the character slice at the raster position
CharSlice(m) ==
    LET v == m.vic
        char_y == (v.raster_line - first_line) \div 8
        char_x == (v.x_coord - first_x_coord) \div 8
        char_addr == 1024 + char_y * 40 + char_x                    \* 0x0400
        char_ptr == VicView_read(m, char_addr)
        data == VicView_read(m, 4096 + char_ptr * 8 + ((v.raster_line - first_line) % 8))
    IN  [i \in 1..8 |-> Bit(data, 8 - i)]

BorderSlice(m) == [i \in 1..8 |-> border_color(m.vic)]

\* AdvanceRaster that wraps the line only past 312
AdvanceRasterLateLine(v) ==
    LET x == v.x_coord + 8
        line == IF x >= 504 THEN v.raster_line + 1 ELSE v.raster_line
    IN  [v EXCEPT !.x_coord = IF x >= 504 THEN 0 ELSE x,
                  !.raster_line = IF line > 312 THEN 0 ELSE line]

\* AdvanceRaster that wraps x only past 504
AdvanceRasterLateX(v) ==
    LET x == v.x_coord + 8
        line == IF x > 504 THEN v.raster_line + 1 ELSE v.raster_line
    IN  [v EXCEPT !.x_coord = IF x > 504 THEN 0 ELSE x,
                  !.raster_line = IF line >= 312 THEN 0 ELSE line]

\* AdvanceRaster that wraps x one step early, at 496
AdvanceRasterShortLine(v) ==
    LET x == v.x_coord + 8
        line == IF x >= 496 THEN v.raster_line + 1 ELSE v.raster_line
    IN  [v EXCEPT !.x_coord = IF x >= 496 THEN 0 ELSE x,
                  !.raster_line = IF line >= 312 THEN 0 ELSE line]

\* x_coord += 8 and the two wrap tests
AdvanceRaster(v) ==
    LET x == v.x_coord + 8
        line == IF x >= 504 THEN v.raster_line + 1 ELSE v.raster_line
    IN  [v EXCEPT !.x_coord = IF x >= 504 THEN 0 ELSE x,
                  !.raster_line = IF line >= 312 THEN 0 ELSE line]

VicII_tick(m) ==
    LET drawn == IF InBorder(m.vic) THEN BorderSlice(m)
                 ELSE IF InDisplayWindow(m.vic) THEN CharSlice(m)
                 ELSE <<>>
    IN  [m EXCEPT !.slice = drawn, !.vic = AdvanceRaster(@)]

VicII_new == [raster_line |-> 0, x_coord |-> 0, registers |-> Registers_new,
              char_rom_enabled |-> FALSE]

----------------------------------------------------------------------------
(* The machine: one system cycle steps the VIC, the CIA and then the CPU,  *)
(* which is handed the IRQ the CIA raised in this cycle.                   *)

\* Whether this tick of the CIA takes the underflow arm
Underflows(c) == And8(c.tacr, START_TIMER) # 0 /\ c.timer_a = 0

\* A machine tick that steps the CPU before the VIC
Machine_tickCpuFirst(m) ==
    Let(Cia1_tick(m.cia),
        LAMBDA c :
            Let([m EXCEPT !.cia = c.cia, !.irq_in = c.irq, !.underflow = Underflows(m.cia)],
                LAMBDA m2 : Let(Mos6510_tick(m2, c.irq), LAMBDA m3 : VicII_tick(m3))))

Machine_tick(m) ==
    Let(VicII_tick(m),
        LAMBDA m1 :
            Let(Cia1_tick(m1.cia),
                LAMBDA c :
                    Let([m1 EXCEPT !.cia = c.cia, !.irq_in = c.irq,
                                   !.underflow = Underflows(m1.cia)],
                        LAMBDA m2 : Mos6510_tick(m2, c.irq))))

----------------------------------------------------------------------------
(* State, steps and specifications                                         *)

\* The machine at the start of a step
Ctx ==
    [cpu |-> cpu, memory |-> memory, fill |-> fill, io |-> io, cia |-> cia, vic |-> vic,
     vic_bank_start |-> vic_bank_start,
     ovf |-> FALSE, oob |-> FALSE, effect |-> None, error |-> FALSE,
     kind |-> "idle", opcode |-> -1, icr_read |-> FALSE, slice |-> <<>>,
     irq_in |-> FALSE, underflow |-> FALSE, msg |-> NoMsg]

NoStep ==
    [kind |-> "none", opcode |-> -1, effect |-> None, irq_in |-> FALSE,
     icr_read |-> FALSE, underflow |-> FALSE, slice |-> <<>>, msg |-> NoMsg]

NoHist ==
    [since |-> 0, set |-> 0, gap |-> 0, prevset |-> 0, underflow_since_read |-> FALSE,
     halted |-> FALSE, resets |-> 0, border |-> 0, entered |-> FALSE,
     saved |-> [pc |-> 0, sp |-> 0, p |-> 0, some |-> FALSE]]

IsDispatch(kind) == kind \in {"irq", "instr", "error"}

\* The counts after a step with result r
NextHist(r) ==
    LET set == IF r.cpu.wait_cycles > 0 THEN r.cpu.wait_cycles ELSE 0
    IN  [since |-> IF IsDispatch(r.kind) THEN 0 ELSE hist.since + 1,
         set |-> IF IsDispatch(r.kind) THEN set ELSE hist.set,
         gap |-> IF IsDispatch(r.kind) THEN hist.since + 1 ELSE hist.gap,
         prevset |-> IF IsDispatch(r.kind) THEN hist.set ELSE hist.prevset,
         underflow_since_read |->
            IF r.icr_read THEN FALSE ELSE hist.underflow_since_read \/ r.underflow,
         halted |-> hist.halted \/ r.kind = "error",
         resets |-> hist.resets,
         border |-> IF r.effect.some /\ r.effect.addr = 53280      \* 0xD020
                    THEN r.effect.value ELSE hist.border,
         entered |-> IF IsDispatch(r.kind) THEN r.kind = "irq" ELSE hist.entered,
         saved |-> IF r.kind = "irq"
                   THEN [pc |-> cpu.program_counter, sp |-> cpu.stack_pointer,
                         p |-> status_register_value(Ctx), some |-> TRUE]
                   ELSE hist.saved]

\* One system cycle.  An overflow aborts a debug build and wraps in a release
\* build; an index out of bounds aborts both.
Tick(limit) ==
    /\ ~panicked
    /\ ticks < limit
    /\ \E r \in {Machine_tick(Ctx)} :
           \/ /\ r.ovf \/ r.oob
              /\ panicked' = TRUE
              /\ last' = [last EXCEPT !.kind = "panic"]
              /\ UNCHANGED <<cpu, memory, fill, io, cia, vic, vic_bank_start, pre, hist, ticks>>
           \/ /\ ~r.oob
              /\ cpu' = r.cpu
              /\ memory' = r.memory
              /\ io' = r.io
              /\ cia' = r.cia
              /\ vic' = r.vic
              /\ vic_bank_start' = r.vic_bank_start
              /\ pre' = [cpu |-> cpu, cia |-> cia]
              /\ last' = [kind |-> r.kind, opcode |-> r.opcode, effect |-> r.effect,
                          irq_in |-> r.irq_in, icr_read |-> r.icr_read,
                          underflow |-> r.underflow, slice |-> r.slice, msg |-> r.msg]
              /\ hist' = NextHist(r)
              /\ ticks' = ticks + 1
              /\ UNCHANGED <<fill, panicked>>

\* Bytes laid out from an address on
Image(base, bytes) == [a \in base..(base + Len(bytes) - 1) |-> bytes[a - base + 1]]

\* KERNAL images (kernal.rom is loaded at 0xE000); each starts at 0xE000
ResetVector == Image(65532, <<\h00, \hE0>>)

\* LDA #$42; STA $10; then an undocumented opcode
ProgLoadStore == Image(57344, <<\hA9, \h42, \h85, \h10, \h00>>) @@ ResetVector

\* Stack set up, timer A latch 2, interrupt enabled, timer started, then a loop.
\* The IRQ vector names 0xE100; a handler also sits at 0xFF48.
ProgTimerIrq ==
    Image(57344, <<\hA2, \hFF, \h9A,            \* LDX #$FF; TXS
                   \hA9, \h02, \h8D, \h04, \hDC, \* LDA #$02; STA $DC04
                   \hA9, \h00, \h8D, \h05, \hDC, \* LDA #$00; STA $DC05
                   \hA9, \h81, \h8D, \h0D, \hDC, \* LDA #$81; STA $DC0D
                   \hA9, \h01, \h8D, \h0E, \hDC, \* LDA #$01; STA $DC0E
                   \h4C, \h17, \hE0>>)           \* JMP $E017
    @@ Image(57600, <<\h40>>)                    \* 0xE100: RTI
    @@ Image(65352, <<\hAD, \h0D, \hDC, \h40>>)  \* 0xFF48: LDA $DC0D; RTI
    @@ Image(65534, <<\h00, \hE1>>) @@ ResetVector

\* Interrupts disabled, one-shot timer started so that it underflows once,
\* 0xDC0D read, interrupts enabled again.  The IRQ vector names 0xFF48.
ProgMaskedIrq ==
    Image(57344, <<\hA2, \hFF, \h9A,            \* LDX #$FF; TXS
                   \h78,                         \* SEI
                   \hA9, \h81, \h8D, \h0D, \hDC, \* LDA #$81; STA $DC0D
                   \hA9, \h09, \h8D, \h0E, \hDC, \* LDA #$09; STA $DC0E
                   \h18,                         \* CLC
                   \hAD, \h0D, \hDC,             \* LDA $DC0D
                   \h58,                         \* CLI
                   \h18, \h18,                   \* CLC; CLC
                   \h4C, \h16, \hE0>>)           \* JMP $E016
    @@ Image(65352, <<\hAD, \h0D, \hDC, \h40>>)  \* 0xFF48: LDA $DC0D; RTI
    @@ Image(65534, <<\h48, \hFF>>) @@ ResetVector

\* The stack used as it is after power-on (stack_pointer = 0)
ProgPowerOnStack == Image(57344, <<\h48, \h68, \h08, \h28, \h00>>) @@ ResetVector

\* The timer started with the stack as it is after power-on, then a loop
ProgPowerOnIrq ==
    Image(57344, <<\hA9, \h81, \h8D, \h0D, \hDC, \* LDA #$81; STA $DC0D
                   \hA9, \h01, \h8D, \h0E, \hDC, \* LDA #$01; STA $DC0E
                   \h4C, \h0A, \hE0>>)           \* JMP $E00A
    @@ Image(65352, <<\hAD, \h0D, \hDC, \h40>>)
    @@ Image(65534, <<\h48, \hFF>>) @@ ResetVector

Programs == {ProgLoadStore, ProgTimerIrq, ProgMaskedIrq, ProgPowerOnStack, ProgPowerOnIrq}

MaxTicks == 64

\* Machine::new with the ROM image in memory
PowerOn(image) ==
    [cpu |-> Mos6510_new, memory |-> image, fill |-> 0, io |-> <<>>, cia |-> Cia1_new,
     vic |-> VicII_new, vic_bank_start |-> 49152,                   \* 0xC000
     ovf |-> FALSE, oob |-> FALSE, effect |-> None, error |-> FALSE,
     kind |-> "idle", opcode |-> -1, icr_read |-> FALSE, slice |-> <<>>,
     irq_in |-> FALSE, underflow |-> FALSE, msg |-> NoMsg]

\* Machine::new, the ROM files loaded, Machine::reset
Init ==
    /\ memory \in Programs
    /\ fill = 0
    /\ io = <<>>
    /\ cia = Cia1_new
    /\ vic = VicII_new
    /\ vic_bank_start = 49152                                       \* 0xC000
    /\ cpu = reset(PowerOn(memory)).cpu
    /\ panicked = FALSE
    /\ pre = [cpu |-> Mos6510_new, cia |-> Cia1_new]
    /\ last = NoStep
    /\ hist = NoHist
    /\ ticks = 0

Next == Tick(MaxTicks)

Spec == Init /\ [][Next]_vars

----------------------------------------------------------------------------
(* One instruction, dispatched from a sampled CPU state.  The opcode sits  *)
(* at program_counter and every other memory cell holds the byte b, which  *)
(* so serves as immediate operand, zero-page address, branch offset, both  *)
(* bytes of an absolute address or vector and as the operand in memory.    *)

\* The opcodes run_instruction has an arm for, and one it has none for
Opcodes ==
    {5, 6, 8, 9, 10, 13, 16, 22, 24, 32, 36, 40, 41, 42, 44, 48, 56, 64, 69, 70, 72, 73,
     74, 76, 86, 88, 96, 101, 102, 104, 105, 106, 108, 112, 118, 120, 121, 132, 133, 134,
     136, 138, 140, 141, 142, 144, 145, 148, 149, 152, 153, 154, 157, 160, 162, 164, 165,
     166, 168, 169, 170, 172, 173, 174, 176, 177, 180, 181, 185, 186, 189, 192, 196, 197,
     198, 200, 201, 202, 205, 208, 209, 216, 221, 224, 228, 229, 230, 232, 233, 236, 240,
     2}

SampleBytes == {\h00, \h05, \h50, \h80, \hFF}

\* accumulator, index_x = index_y, program_counter
SampleRegisters ==
    {[a |-> \h00, xy |-> \h01, pc |-> \h8000],
     [a |-> \h50, xy |-> \h00, pc |-> \h80FD],
     [a |-> \h80, xy |-> \hFF, pc |-> \h8000],
     [a |-> \hFF, xy |-> \h05, pc |-> \h80FD]}

SampleStackPointer == \h80

MaxInstrTicks == 1

InitInstr ==
    /\ \E opcode \in Opcodes, r \in SampleRegisters, c \in BOOLEAN, f \in BOOLEAN :
          /\ memory = Image(r.pc, <<opcode>>)
          /\ cpu = [Mos6510_new EXCEPT
                        !.program_counter = r.pc, !.stack_pointer = SampleStackPointer,
                        !.accumulator = r.a, !.index_x = r.xy, !.index_y = r.xy,
                        !.carry_flag = c, !.zero_flag = f, !.negative_flag = f,
                        !.overflow_flag = f, !.break_flag = f]
    /\ fill \in SampleBytes
    /\ io = <<>>
    /\ cia = Cia1_new
    /\ vic = VicII_new
    /\ vic_bank_start = 49152
    /\ panicked = FALSE
    /\ pre = [cpu |-> Mos6510_new, cia |-> Cia1_new]
    /\ last = NoStep
    /\ hist = NoHist
    /\ ticks = 0

NextInstr == Tick(MaxInstrTicks)

SpecInstr == InitInstr /\ [][NextInstr]_vars

----------------------------------------------------------------------------
(* The CIA alone, driven through its three operations.  hist holds what    *)
(* the software asked for: mask is interrupt-mask bit 0 as the writes to   *)
(* 0xDC0D left it (bit 7 of the written byte says whether the named bits   *)
(* are set or cleared), run is the number of ticks since the timer was     *)
(* started from rest in continuous mode with a latch above 0, or -1.       *)

CiaAddrs == {56324, 56325, 56333, 56334}      \* 0xDC04, 0xDC05, 0xDC0D, 0xDC0E

CiaValues == {\h00, \h01, \h02, \h09, \h11, \h81}

MaxCiaSteps == 5

NoCiaHist == [mask |-> FALSE, run |-> -1]

MaskAfterWrite(mask, value) ==
    IF Bit(value, 0) = 1 THEN Bit(value, 7) = 1 ELSE mask

StartsFromRest(c, value) ==
    /\ And8(c.tacr, START_TIMER) = 0
    /\ And8(value, START_TIMER) # 0
    /\ And8(value, STOP_ON_UNDERFLOW) = 0
    /\ c.timer_a_start > 0

CiaWrite(addr, value) ==
    /\ ticks < MaxCiaSteps
    /\ cia' = Cia1_write(cia, addr, value)
    /\ hist' = [mask |-> IF addr = 56333 THEN MaskAfterWrite(hist.mask, value) ELSE hist.mask,
                run |-> IF addr = 56334 /\ StartsFromRest(cia, value) THEN 0 ELSE -1]
    /\ last' = [NoStep EXCEPT !.kind = "cia_write", !.effect = WriteMem(addr, value)]
    /\ pre' = [pre EXCEPT !.cia = cia]
    /\ ticks' = ticks + 1
    /\ UNCHANGED <<cpu, memory, fill, io, vic, vic_bank_start, panicked>>

CiaRead(addr) ==
    /\ ticks < MaxCiaSteps
    /\ cia' = Cia1_read_state(cia, addr)
    /\ hist' = [hist EXCEPT !.run = -1]
    /\ last' = [NoStep EXCEPT !.kind = "cia_read", !.effect.addr = addr,
                              !.effect.value = Cia1_read_value(cia, addr),
                              !.icr_read = (addr = 56333)]
    /\ pre' = [pre EXCEPT !.cia = cia]
    /\ ticks' = ticks + 1
    /\ UNCHANGED <<cpu, memory, fill, io, vic, vic_bank_start, panicked>>

CiaTick ==
    /\ ticks < MaxCiaSteps
    /\ \E r \in {Cia1_tick(cia)} :
           /\ cia' = r.cia
           /\ last' = [NoStep EXCEPT !.kind = "cia_tick", !.irq_in = r.irq,
                                     !.underflow = Underflows(cia)]
    /\ hist' = [hist EXCEPT !.run = IF @ >= 0 THEN @ + 1 ELSE @]
    /\ pre' = [pre EXCEPT !.cia = cia]
    /\ ticks' = ticks + 1
    /\ UNCHANGED <<cpu, memory, fill, io, vic, vic_bank_start, panicked>>

InitCia ==
    /\ cia = Cia1_new
    /\ cpu = Mos6510_new
    /\ memory = <<>>
    /\ fill = 0
    /\ io = <<>>
    /\ vic = VicII_new
    /\ vic_bank_start = 49152
    /\ panicked = FALSE
    /\ pre = [cpu |-> Mos6510_new, cia |-> Cia1_new]
    /\ last = NoStep
    /\ hist = NoCiaHist
    /\ ticks = 0

NextCia ==
    \/ \E addr \in CiaAddrs, value \in CiaValues : CiaWrite(addr, value)
    \/ \E addr \in CiaAddrs : CiaRead(addr)
    \/ CiaTick

SpecCia == InitCia /\ [][NextCia]_vars

----------------------------------------------------------------------------
(* The CIA in one-shot mode.  The run starts with the timer loaded: a      *)
(* latch of 2 has been written, the timer has been through a continuous    *)
(* underflow that reloaded it and has counted down to some value, 0xDC0D   *)
(* has been read, and the control register holds ONE_SHOT with START set   *)
(* or clear.  The software then writes the control register, reads 0xDC0D  *)
(* and lets the timer tick.                                                *)

ShotLatch == 2

ShotControls == {STOP_ON_UNDERFLOW, STOP_ON_UNDERFLOW + START_TIMER}

InitShot ==
    /\ cia \in {[timer_a |-> t, timer_a_start |-> ShotLatch, ics |-> 0, tacr |-> c] :
                    t \in 0..ShotLatch, c \in ShotControls}
    /\ cpu = Mos6510_new
    /\ memory = <<>>
    /\ fill = 0
    /\ io = <<>>
    /\ vic = VicII_new
    /\ vic_bank_start = 49152
    /\ panicked = FALSE
    /\ pre = [cpu |-> Mos6510_new, cia |-> Cia1_new]
    /\ last = NoStep
    /\ hist = NoCiaHist
    /\ ticks = 0

NextShot ==
    \/ \E value \in ShotControls : CiaWrite(56334, value)
    \/ CiaRead(56333)
    \/ CiaTick

SpecShot == InitShot /\ [][NextShot]_vars

----------------------------------------------------------------------------
(* Programs run from reset, with reset() called again at any moment.       *)

\* Mos6510::reset called on the running machine
Reset(limit) ==
    /\ ~panicked
    /\ hist.resets < limit
    /\ \E r \in {reset(Ctx)} :
           /\ cpu' = r.cpu
           /\ cia' = r.cia
    /\ pre' = [cpu |-> cpu, cia |-> cia]
    /\ last' = [NoStep EXCEPT !.kind = "reset"]
    /\ hist' = [hist EXCEPT !.halted = FALSE, !.resets = @ + 1]
    /\ UNCHANGED <<memory, fill, io, vic, vic_bank_start, panicked, ticks>>

SampleStackPointers == {\h00, \h01, \h02, \h80, \hFF}

\* SP set to s, then PHA PHP ... PLP PLA around code that changes A and P
ProgPushPop(s) ==
    Image(57344, <<\hA2, s, \h9A,              \* E000 LDX #s; TXS
                   \h38,                        \* E003 SEC
                   \hA9, \h5A,                  \* E004 LDA #$5A
                   \h48,                        \* E006 PHA
                   \h08,                        \* E007 PHP
                   \h18,                        \* E008 CLC
                   \hA9, \h80,                  \* E009 LDA #$80
                   \h28,                        \* E00B PLP
                   \h68,                        \* E00C PLA
                   \h02>>)                      \* E00D no such opcode
    @@ ResetVector

\* SP set to s, then a JSR at 0xE005 to a subroutine that pushes and pops
ProgJsr(s) ==
    Image(57344, <<\hA2, s, \h9A,              \* E000 LDX #s; TXS
                   \hA9, \h5A,                  \* E003 LDA #$5A
                   \h20, \h10, \hE0,            \* E005 JSR $E010
                   \h02>>)                      \* E008 no such opcode
    @@ Image(57360, <<\h48,                     \* E010 PHA
                      \hA9, \h00,               \* E011 LDA #$00
                      \h68,                     \* E013 PLA
                      \h60>>)                   \* E014 RTS
    @@ ResetVector

\* A JSR at 0xE0FE, whose return address lies on the next page
ProgJsrFar ==
    Image(57344, <<\hA2, \h80, \h9A,           \* E000 LDX #$80; TXS
                   \h4C, \hFE, \hE0>>)          \* E003 JMP $E0FE
    @@ Image(57360, <<\h48, \h68, \h60>>)       \* E010 PHA; PLA; RTS
    @@ Image(57598, <<\h20, \h10, \hE0,         \* E0FE JSR $E010
                      \h02>>)                   \* E101 no such opcode
    @@ ResetVector

\* Timer A started with latch 8, then a byte that is no opcode. The timer
\* underflows at once (ics bit 0 set, no IRQ yet) and again nine ticks
\* later, after the decode error, now asserting the IRQ.
ProgHaltIrq ==
    Image(57344, <<\hA2, \hFF, \h9A,           \* E000 LDX #$FF; TXS
                   \hA9, \h08, \h8D, \h04, \hDC, \* E003 LDA #$08; STA $DC04
                   \hA9, \h01, \h8D, \h0E, \hDC, \* E008 LDA #$01; STA $DC0E
                   \h02>>)                      \* E00D no such opcode
    @@ ResetVector

\* 0x5A stored at 0x5000, then 0x03 and 0x02 written to 0xDD00
ProgBankSwitch ==
    Image(57344, <<\hA9, \h5A, \h8D, \h00, \h50, \* E000 LDA #$5A; STA $5000
                   \hA9, \h03, \h8D, \h00, \hDD, \* E005 LDA #$03; STA $DD00
                   \hA9, \h02, \h8D, \h00, \hDD, \* E00A LDA #$02; STA $DD00
                   \h02>>)                      \* E00F no such opcode
    @@ ResetVector

\* A reset vector that names 0xE123
ProgVector ==
    Image(57635, <<\hA9, \h01, \h02>>)          \* E123 LDA #$01; no such opcode
    @@ Image(65532, <<\h23, \hE1>>)

\* The timer A interrupt enabled and the timer started with the latch at 0,
\* its value after construction: the timer underflows on every tick.  The
\* handler at 0xFF48 acknowledges and returns.
ProgIrqStorm ==
    Image(57344, <<\hA2, \hFF, \h9A,           \* E000 LDX #$FF; TXS
                   \hA9, \h01,                 \* E003 LDA #$01
                   \h8D, \h0D, \hDC,           \* E005 STA $DC0D
                   \h8D, \h0E, \hDC,           \* E008 STA $DC0E
                   \h4C, \h0B, \hE0>>)         \* E00B JMP $E00B
    @@ Image(65352, <<\hAD, \h0D, \hDC, \h40>>) \* FF48 LDA $DC0D; RTI
    @@ ResetVector

\* C and N set, the timer A interrupt enabled and the timer started in
\* one-shot mode: it underflows once, at once.  The handler at 0xFF48 changes
\* A, Z, N and C and returns.
ProgIrqRti ==
    Image(57344, <<\hA2, \hFF, \h9A,           \* E000 LDX #$FF; TXS
                   \h38,                       \* E003 SEC
                   \hA9, \h81,                 \* E004 LDA #$81
                   \h8D, \h0D, \hDC,           \* E006 STA $DC0D
                   \hA9, \h89,                 \* E009 LDA #$89
                   \h8D, \h0E, \hDC,           \* E00B STA $DC0E
                   \h4C, \h0E, \hE0>>)         \* E00E JMP $E00E
    @@ Image(65352, <<\hA9, \h00, \h18, \h40>>) \* FF48 LDA #$00; CLC; RTI
    @@ ResetVector

ResetPrograms ==
    {ProgPushPop(s) : s \in SampleStackPointers} \cup {ProgJsr(s) : s \in SampleStackPointers}
        \cup {ProgJsrFar, ProgHaltIrq, ProgBankSwitch, ProgVector, ProgIrqStorm, ProgIrqRti}

MaxProgTicks == 32

MaxResets == 1

InitProg ==
    /\ memory \in ResetPrograms
    /\ fill = 0
    /\ io = <<>>
    /\ cia = Cia1_new
    /\ vic = VicII_new
    /\ vic_bank_start = 49152                                       \* 0xC000
    /\ cpu = reset(PowerOn(memory)).cpu
    /\ panicked = FALSE
    /\ pre = [cpu |-> Mos6510_new, cia |-> Cia1_new]
    /\ last = NoStep
    /\ hist = NoHist
    /\ ticks = 0

NextProg == Tick(MaxProgTicks) \/ Reset(MaxResets)

SpecProg == InitProg /\ [][NextProg]_vars

----------------------------------------------------------------------------
(* One frame of the machine, with programs that set the border colour      *)

\* 0x06 to 0xD020 at once, 0xF3 after a delay loop, while the raster is in
\* the upper border
ProgBorder ==
    Image(57344, <<\hA9, \h06, \h8D, \h20, \hD0, \* E000 LDA #$06; STA $D020
                   \hA2, \h00,                  \* E005 LDX #$00
                   \hCA, \hD0, \hFD,            \* E007 DEX; BNE $E007
                   \hA9, \hF3, \h8D, \h20, \hD0, \* E00A LDA #$F3; STA $D020
                   \h4C, \h0F, \hE0>>)          \* E00F JMP $E00F
    @@ ResetVector

\* Bank 0 with the character ROM laid over it, border colour 0x0E
ProgScreen ==
    Image(57344, <<\hA9, \h03, \h8D, \h00, \hDD, \* E000 LDA #$03; STA $DD00
                   \hA9, \h0E, \h8D, \h20, \hD0, \* E005 LDA #$0E; STA $D020
                   \h4C, \h0A, \hE0>>)          \* E00A JMP $E00A
    @@ ResetVector

FramePrograms == {ProgBorder, ProgScreen}

MaxFrameTicks == 19656

InitFrame ==
    /\ memory \in FramePrograms
    /\ fill = 0
    /\ io = <<>>
    /\ cia = Cia1_new
    /\ vic = VicII_new
    /\ vic_bank_start = 49152                                       \* 0xC000
    /\ cpu = reset(PowerOn(memory)).cpu
    /\ panicked = FALSE
    /\ pre = [cpu |-> Mos6510_new, cia |-> Cia1_new]
    /\ last = NoStep
    /\ hist = NoHist
    /\ ticks = 0

NextFrame == Tick(MaxFrameTicks)

SpecFrame == InitFrame /\ [][NextFrame]_vars

----------------------------------------------------------------------------
(* The bus alone: CPU writes and reads at sampled addresses                *)

\* RAM, both ROM windows, VIC registers (0xD02F is past the register
\* array), I/O shadow, color RAM and CIA registers
BusAddrs ==
    {\h0010, \hC000, \hA000, \hE000, \hD020, \hD02F, \hD400, \hDD00, \hD800,
     \hDC04, \hDC0D, \hDC0E}

BusValues == {\h02, \h55, \hFF}

\* The first bytes of basic.rom and kernal.rom
BusRom == Image(40960, <<\h94, \hE3>>) @@ Image(57344, <<\h85, \h56>>) @@ ResetVector

MaxBusSteps == 3

\* No write precedes
NoBusHist == [w |-> None, before |-> 0]

\* WriteView::write(addr, value) by the CPU
CpuWrite(limit) ==
    /\ ~panicked
    /\ ticks < limit
    /\ \E addr \in BusAddrs, value \in BusValues :
           \E r \in {BusWrite(Ctx, addr, value)} :
                \/ /\ r.oob
                   /\ panicked' = TRUE
                   /\ last' = [NoStep EXCEPT !.kind = "panic", !.effect = WriteMem(addr, value)]
                   /\ UNCHANGED <<cpu, memory, fill, io, cia, vic, vic_bank_start, pre, hist,
                                  ticks>>
                \/ /\ ~r.oob
                   /\ memory' = r.memory
                   /\ io' = r.io
                   /\ cia' = r.cia
                   /\ vic' = r.vic
                   /\ vic_bank_start' = r.vic_bank_start
                   /\ last' = [NoStep EXCEPT !.kind = "bus_write",
                                             !.effect = WriteMem(addr, value)]
                   /\ hist' = [w |-> WriteMem(addr, value), before |-> BusRead(Ctx, addr)]
                   /\ ticks' = ticks + 1
                   /\ UNCHANGED <<cpu, fill, pre, panicked>>

\* ReadView::read(addr) by the CPU; last.effect holds the address and the byte
CpuRead(limit) ==
    /\ ~panicked
    /\ ticks < limit
    /\ \E addr \in BusAddrs :
           \E r \in {Rd(Ctx, addr)} :
                /\ cia' = r.m.cia
                /\ last' = [NoStep EXCEPT !.kind = "bus_read", !.effect = WriteMem(addr, r.val)]
    /\ hist' = IF last.kind = "bus_write" THEN hist ELSE NoBusHist
    /\ ticks' = ticks + 1
    /\ UNCHANGED <<cpu, memory, fill, io, vic, vic_bank_start, pre, panicked>>

\* Machine::new and the ROM files loaded
InitBus ==
    /\ memory = BusRom
    /\ fill = 0
    /\ io = <<>>
    /\ cia = Cia1_new
    /\ vic = VicII_new
    /\ vic_bank_start = 49152                                       \* 0xC000
    /\ cpu = reset(PowerOn(memory)).cpu
    /\ panicked = FALSE
    /\ pre = [cpu |-> Mos6510_new, cia |-> Cia1_new]
    /\ last = NoStep
    /\ hist = NoBusHist
    /\ ticks = 0

NextBus == CpuWrite(MaxBusSteps) \/ CpuRead(MaxBusSteps)

SpecBus == InitBus /\ [][NextBus]_vars

----------------------------------------------------------------------------
(* The VIC alone, ticked from power-on                                     *)

MaxVicTicks == 157248

\* VicII::tick
VicTick(limit) ==
    /\ ticks < limit
    /\ \E r \in {VicII_tick(Ctx)} :
           /\ vic' = r.vic
           /\ last' = [NoStep EXCEPT !.kind = "vic_tick", !.slice = r.slice]
    /\ ticks' = ticks + 1
    /\ UNCHANGED <<cpu, memory, fill, io, cia, vic_bank_start, panicked, pre, hist>>

\* Machine::new: VicII::new with the raster at line 0, x 0
InitVic ==
    /\ memory = <<>>
    /\ fill = 0
    /\ io = <<>>
    /\ cia = Cia1_new
    /\ vic = VicII_new
    /\ vic_bank_start = 49152                                       \* 0xC000
    /\ cpu = Mos6510_new
    /\ panicked = FALSE
    /\ pre = [cpu |-> Mos6510_new, cia |-> Cia1_new]
    /\ last = NoStep
    /\ hist = NoHist
    /\ ticks = 0

NextVic == VicTick(MaxVicTicks)

SpecVic == InitVic /\ [][NextVic]_vars

----------------------------------------------------------------------------
(* Properties                                                              *)

\* The byte at an address of main memory
Mem(addr) == Cell(memory, fill, addr)

IsProgLoadStore == Mem(57344) = \hA9 /\ Mem(57345) = \h42

\* C1: when a dispatch sets wait_cycles to N > 0, the next dispatch happens
\* exactly N ticks later and the ticks in between dispatch nothing; LDA #imm
\* followed by STA zp takes 5 ticks from the dispatch of the LDA (tick 1) to
\* the dispatch that follows the STA (tick 6).
C1_CycleAccounting ==
    /\ (IsDispatch(last.kind) /\ hist.prevset > 0) => hist.gap = hist.prevset
    /\ (last.kind = "idle" /\ hist.set > 0) => hist.since < hist.set
    /\ (IsProgLoadStore /\ IsDispatch(last.kind) /\ pre.cpu.program_counter = \hE004
            /\ pre.cpu.wait_cycles = 1)
       => ticks = 6

\* C1: the dispatch after LDA #$42; STA $10 has been reached
C1_Witness ==
    /\ IsProgLoadStore
    /\ IsDispatch(last.kind)
    /\ pre.cpu.program_counter = \hE004
    /\ pre.cpu.wait_cycles = 1
    /\ cpu.accumulator = \h42
    /\ Mem(16) = \h42
    /\ hist.gap = 3
    /\ hist.prevset = 3
    /\ ticks = 6

\* The opcodes of the instruction table
DocumentedOpcodes == Opcodes \ {2}

\* C2: right after run_instruction has dispatched an opcode of the
\* instruction table, wait_cycles is at least 2.
C2_WaitAtLeastTwo ==
    (last.kind = "instr" /\ last.opcode \in DocumentedOpcodes) => cpu.wait_cycles >= 2

\* The status byte with the B bit clear
StatusWithoutB(c) == status_register_value([cpu |-> [c EXCEPT !.break_flag = FALSE]])

\* C3: an IRQ entry pushes the high byte of PC, the low byte of PC and then P
\* with bit 4 clear, and loads PC from the word at 0xFFFE/0xFFFF.
C3_IrqEntry ==
    last.kind = "irq" =>
        LET sp == pre.cpu.stack_pointer
            pc == pre.cpu.program_counter
        IN  /\ Mem(256 + sp) = pc \div 256
            /\ Mem(256 + ((sp - 1) % 256)) = pc % 256
            /\ Mem(256 + ((sp - 2) % 256)) = StatusWithoutB(pre.cpu)
            /\ cpu.stack_pointer = (sp - 3) % 256
            /\ cpu.program_counter = Mem(65534) + 256 * Mem(65535)

\* C4: an IRQ entry is taken only when timer A has underflowed since the
\* last read of 0xDC0D.
C4_IrqReleasedByRead == last.kind = "irq" => hist.underflow_since_read

\* The step of the machine with the IRQ input and the pending IRQ taken away
TickWithoutIrq ==
    Let(VicII_tick(Ctx),
        LAMBDA m1 :
            Let(Cia1_tick(m1.cia),
                LAMBDA c : Mos6510_tick([m1 EXCEPT !.cia = c.cia, !.cpu.irq = FALSE], FALSE)))

StackPage(mem) == [a \in 256..511 |-> Cell(mem, fill, a)]

\* C5: an IRQ entry happens only on a tick where interrupt_disable_flag is
\* clear and wait_cycles is at most 0 after the decrement; on every other
\* tick PC, SP and the stack page end as they do without any IRQ.
C5_IrqBlocked ==
    [][ticks' = ticks + 1 =>
        LET blocked == cpu.interrupt_disable_flag \/ cpu.wait_cycles - 1 > 0
        IN  /\ last'.kind = "irq" => ~blocked
            /\ (blocked /\ (cpu.irq \/ last'.irq_in)) =>
                    /\ cpu'.program_counter = TickWithoutIrq.cpu.program_counter
                    /\ cpu'.stack_pointer = TickWithoutIrq.cpu.stack_pointer
                    /\ StackPage(memory') = StackPage(TickWithoutIrq.memory)]_vars

\* C5: an instruction was dispatched with an IRQ pending and
\* interrupt_disable_flag set, and the IRQ is still pending
C5_Witness ==
    /\ last.kind = "instr"
    /\ pre.cpu.interrupt_disable_flag
    /\ pre.cpu.irq
    /\ cpu.irq
    /\ cpu.program_counter # pre.cpu.program_counter

\* C6: L + 1 ticks after timer A was started from rest in continuous mode
\* with latch L > 0, bit 0 of the interrupt status is set and the timer
\* holds L.
C6_UnderflowTiming ==
    (hist.run >= 0 /\ hist.run = cia.timer_a_start + 1) =>
        /\ Bit(cia.ics, 0) = 1
        /\ cia.timer_a = cia.timer_a_start

\* C7: a tick in which timer A underflows asserts the IRQ exactly when
\* interrupt-mask bit 0 is set.
C7_IrqIffMask ==
    (last.kind = "cia_tick" /\ last.underflow) => (last.irq_in <=> hist.mask)

BranchOpcodes == {\h10, \h30, \h70, \h90, \hB0, \hD0, \hF0}

\* The condition of a branch opcode in CPU state c
BranchCondition(opcode, c) ==
    CASE opcode = \h10 -> ~c.negative_flag
      [] opcode = \h30 -> c.negative_flag
      [] opcode = \h70 -> c.overflow_flag
      [] opcode = \h90 -> ~c.carry_flag
      [] opcode = \hB0 -> c.carry_flag
      [] opcode = \hD0 -> ~c.zero_flag
      [] opcode = \hF0 -> c.zero_flag

\* C8: a taken branch ends at PC + 2 + offset with wait_cycles 3 when that
\* is on the page of PC + 2 and 4 otherwise; a branch not taken ends at
\* PC + 2 with wait_cycles 2.
C8_Branches ==
    (last.kind = "instr" /\ last.opcode \in BranchOpcodes) =>
        LET pc == pre.cpu.program_counter
            next == (pc + 2) % 65536
            target == (pc + 2 + AsI8(Mem((pc + 1) % 65536))) % 65536
        IN  IF BranchCondition(last.opcode, pre.cpu)
            THEN /\ cpu.program_counter = target
                 /\ cpu.wait_cycles = IF same_page(target, next) THEN 3 ELSE 4
            ELSE /\ cpu.program_counter = next
                 /\ cpu.wait_cycles = 2

AdcOpcodes == {\h69, \h65, \h79}

\* C9: ADC leaves the low 8 bits of A + M + C in A and bit 8 in C, and sets V
\* exactly when A and M have the same sign and the result has the other.
\* (Every cell but the opcode's holds the byte fill, which is M.)
C9_Adc ==
    (last.kind = "instr" /\ last.opcode \in AdcOpcodes) =>
        LET a == pre.cpu.accumulator
            sum == a + fill + (IF pre.cpu.carry_flag THEN 1 ELSE 0)
        IN  /\ cpu.accumulator = sum % 256
            /\ cpu.carry_flag = (sum >= 256)
            /\ cpu.overflow_flag = ((a >= 128) = (fill >= 128)
                                      /\ (sum % 256 >= 128) # (a >= 128))

ResultInA ==
    {\hA9, \hA5, \hAD, \hB5, \hBD, \hB9, \hB1, \h8A, \h98, \h29, \h09, \h05, \h0D,
     \h49, \h45, \h69, \h65, \h79, \hE9, \hE5, \h2A, \h6A}
ResultInX == {\hA2, \hA6, \hAE, \hAA, \hBA, \hE8, \hCA}
ResultInY == {\hA0, \hA4, \hAC, \hB4, \hA8, \hC8, \h88}
ResultInMemory == {\hE6, \hC6, \h06, \h16, \h46, \h56, \h66, \h76}

\* The result byte of the instruction that was dispatched last.  ASL A and
\* LSR A: the accumulator shifted.
ResultByte ==
    CASE last.opcode \in ResultInA -> cpu.accumulator
      [] last.opcode \in ResultInX -> cpu.index_x
      [] last.opcode \in ResultInY -> cpu.index_y
      [] last.opcode \in ResultInMemory -> last.effect.value
      [] last.opcode = \h0A -> (pre.cpu.accumulator * 2) % 256
      [] last.opcode = \h4A -> pre.cpu.accumulator \div 2

\* C10: after a load, a transfer other than TXS, AND/ORA/EOR, ADC/SBC,
\* an increment or decrement, a shift or a rotate with result byte r, Z is
\* (r = 0) and N is bit 7 of r.
C10_FlagDerivation ==
    (last.kind = "instr"
        /\ last.opcode \in ResultInA \cup ResultInX \cup ResultInY \cup ResultInMemory
                            \cup {\h0A, \h4A}) =>
        /\ cpu.zero_flag = (ResultByte = 0)
        /\ cpu.negative_flag = (Bit(ResultByte, 7) = 1)

\* C10: DEC has turned 0x00 in memory into 0xFF, clearing Z and setting N
C10_Witness ==
    /\ last.kind = "instr"
    /\ last.opcode = \hC6
    /\ fill = \h00
    /\ last.effect.value = \hFF
    /\ ~pre.cpu.negative_flag
    /\ cpu.negative_flag
    /\ ~cpu.zero_flag

----------------------------------------------------------------------------
(* Stack, subroutines, reset and decode errors (SpecProg)                  *)

IsProgPushPop == Mem(57347) = \h38 /\ Mem(57350) = \h48

IsProgJsr == Mem(57349) = \h20 /\ Mem(57360) = \h48 /\ Mem(57361) = \hA9

\* The stack pointer a program loads with LDX #s; TXS
StartSP == Mem(57345)

\* The stack cells below and including 0x100 + s that n pushes fill
Pushed(s, n) == {256 + ((s - k) % 256) : k \in 0..(n - 1)}

\* The instruction at pc has just been dispatched
JustRan(pc, opcode) ==
    last.kind = "instr" /\ last.opcode = opcode /\ pre.cpu.program_counter = pc

\* Matched pushes and pops ended where they began, each pop having
\* returned the byte pushed last, the rest of the stack page as it was
PushPopBalanced ==
    /\ (IsProgPushPop /\ JustRan(\hE00B, \h28)) =>
            /\ cpu.carry_flag /\ ~cpu.negative_flag /\ ~cpu.zero_flag
            /\ cpu.stack_pointer = (StartSP - 1) % 256
            /\ cpu.accumulator = \h80
    /\ (IsProgPushPop /\ JustRan(\hE00C, \h68)) =>
            /\ cpu.accumulator = \h5A
            /\ cpu.stack_pointer = StartSP
            /\ \A a \in (256..511) \ Pushed(StartSP, 2) : Mem(a) = 0
    /\ (IsProgJsr /\ JustRan(\hE013, \h68)) => cpu.accumulator = \h5A
    /\ (IsProgJsr /\ JustRan(\hE014, \h60)) =>
            /\ cpu.stack_pointer = StartSP
            /\ \A a \in (256..511) \ Pushed(StartSP, 3) : Mem(a) = 0

\* C11: for every starting SP = s and every sequence of matched pushes and
\* pops (PHA/PLA, PHP/PLP, JSR/RTS) the sequence runs to its end, SP ends at
\* s, every pop returns the byte most recently pushed and not yet popped,
\* and the stack-page bytes outside the pushed range are unchanged.
C11_StackDiscipline ==
    /\ ((IsProgPushPop \/ IsProgJsr) => ~panicked)
    /\ PushPopBalanced

IsProgJsrFar == Mem(57598) = \h20 /\ Mem(57347) = \h4C

\* C12: a JSR at address P to a subroutine whose pushes and pops balance,
\* run through the matching RTS, leaves PC = P + 3 and SP as it was before
\* the JSR.
C12_JsrRtsRoundTrip ==
    /\ (IsProgJsr /\ JustRan(\hE014, \h60)) =>
            /\ cpu.program_counter = \hE005 + 3
            /\ cpu.stack_pointer = StartSP
    /\ (IsProgJsrFar /\ JustRan(\hE012, \h60)) =>
            /\ cpu.program_counter = \hE0FE + 3
            /\ cpu.stack_pointer = \h80

\* C12: the RTS that matches the JSR at 0xE0FE has returned to 0xE101
C12_Witness ==
    /\ IsProgJsrFar
    /\ JustRan(\hE012, \h60)
    /\ cpu.program_counter = \hE101
    /\ cpu.stack_pointer = \h80
    /\ Mem(256 + \h80) = \hE1
    /\ Mem(256 + \h7F) = \h00

IsProgVector == Mem(65532) = \h23 /\ Mem(65533) = \hE1

\* C13: after reset(), whatever the CPU state and memory were, PC equals
\* mem[0xFFFC] + 256 * mem[0xFFFD] as the bus reads them.
C13_ResetVector ==
    (last.kind = "reset" \/ ticks = 0) =>
        cpu.program_counter = Mem(65532) + 256 * Mem(65533)

\* C13: a reset taken after the program ran away from the vector's target
C13_Witness ==
    /\ IsProgVector
    /\ last.kind = "reset"
    /\ ticks > 2
    /\ pre.cpu.program_counter = \hE125
    /\ pre.cpu.accumulator = 1
    /\ cpu.accumulator = 1
    /\ cpu.program_counter = \hE123

\* A, X, Y, SP, PC and the flags
Registers(c) ==
    <<c.accumulator, c.index_x, c.index_y, c.stack_pointer, c.program_counter,
      c.negative_flag, c.overflow_flag, c.break_flag, c.decimal_mode_flag,
      c.interrupt_disable_flag, c.zero_flag, c.carry_flag>>

\* The error message names the value
Carries(msg, value) == \E i \in DOMAIN msg.args : msg.args[i] = value

\* A dispatch that ends in a decode error changes no register and no memory
ErrorLeavesState ==
    [][last'.kind = "error" =>
        /\ Registers(cpu') = Registers(cpu)
        /\ memory' = memory
        /\ io' = io]_vars

\* C14: when the byte at PC is not in the opcode table, the dispatch returns
\* a decode error that carries both the opcode and the PC, and A, X, Y, SP,
\* PC, every flag and all memory are left unchanged.
C14_UnknownOpcode ==
    [][last'.kind = "error" =>
        /\ Cell(memory, fill, cpu.program_counter) \notin DocumentedOpcodes
        /\ Carries(last'.msg, Cell(memory, fill, cpu.program_counter))
        /\ Carries(last'.msg, cpu.program_counter)
        /\ Registers(cpu') = Registers(cpu)
        /\ memory' = memory
        /\ io' = io]_vars

IsProgHaltIrq == Mem(57348) = \h08 /\ Mem(57357) = \h02

\* C15: after a decode error the CPU is halted: every later tick, until a
\* reset, leaves PC, A, X, Y, SP, the flags and memory unchanged, executes
\* no instruction and takes no IRQ entry, even when an IRQ is asserted with
\* I clear.
C15_HaltedAfterError ==
    [][(hist.halted /\ ticks' = ticks + 1) =>
        /\ last'.kind \notin {"instr", "irq"}
        /\ Registers(cpu') = Registers(cpu)
        /\ memory' = memory
        /\ io' = io]_vars

----------------------------------------------------------------------------
(* The bus (SpecBus)                                                       *)

InRomWindow(addr) == (addr >= \hA000 /\ addr <= \hBFFF) \/ (addr >= \hE000 /\ addr <= \hFFFF)

InVicRegisters(addr) == addr >= \hD000 /\ addr <= \hD3FF

InCiaRegisters(addr) == addr >= \hDC00 /\ addr <= \hDCFF

InColorRam(addr) == addr >= \hD800 /\ addr <= \hDBFF

InIoShadow(addr) ==
    (addr >= \hD400 /\ addr <= \hD7FF) \/ (addr >= \hDD00 /\ addr <= \hDFFF)

InRam(addr) == addr < \hA000 \/ (addr >= \hC000 /\ addr <= \hCFFF)

\* RAM, color RAM or I/O shadow, and neither a ROM window nor a VIC or CIA register
Storing(addr) ==
    /\ InRam(addr) \/ InColorRam(addr) \/ InIoShadow(addr)
    /\ ~InRomWindow(addr)
    /\ ~InVicRegisters(addr)
    /\ ~InCiaRegisters(addr)

\* The step just taken read the address written by the step before it
ReadAfterWrite ==
    last.kind = "bus_read" /\ hist.w.some /\ hist.w.addr = last.effect.addr

\* C16 as stated: write(A, v) immediately followed by read(A) returns v if
\* and only if A lies in RAM, color RAM or the I/O shadow and is neither in a
\* ROM window nor a VIC or CIA register (v differing from what A read as
\* before the write, so that no byte comes back by coincidence).
C16_BusDecodingIff ==
    (ReadAfterWrite /\ hist.w.value # hist.before) =>
        (last.effect.value = hist.w.value <=> Storing(last.effect.addr))

\* C16: write(A, v) immediately followed by read(A) returns v if A lies in
\* RAM, color RAM or the I/O shadow and is neither in a ROM window nor a VIC
\* or CIA register; for A in a ROM window it returns the byte loaded from
\* the ROM file, whatever v was.
C16_BusDecoding ==
    ReadAfterWrite =>
        /\ Storing(last.effect.addr) => last.effect.value = hist.w.value
        /\ InRomWindow(last.effect.addr) =>
                last.effect.value = Cell(BusRom, 0, last.effect.addr)

\* C16: 0x55 written to the I/O shadow at 0xD400 and read back at once,
\* after an earlier write of another byte there
C16_Witness ==
    /\ ReadAfterWrite
    /\ last.effect.addr = \hD400
    /\ hist.w.value = \h55
    /\ hist.before = \hFF
    /\ last.effect.value = \h55
    /\ Cell(io, 0, \hD400) = \h55
    /\ Cell(memory, fill, \hD400) = 0

\* C17: under any sequence of CPU bus writes the bytes at 0xA000-0xBFFF and
\* 0xE000-0xFFFF keep the values they had after the ROM load, and a write to
\* such an address changes no other state (other RAM, I/O shadow, VIC
\* registers, VIC bank base, overlay enable).
C17_RomWriteProtected ==
    [][/\ \A a \in (DOMAIN memory') \cup (DOMAIN BusRom) :
              InRomWindow(a) => Cell(memory', fill', a) = Cell(BusRom, 0, a)
       /\ (last'.kind = "bus_write" /\ InRomWindow(last'.effect.addr)) =>
              /\ memory' = memory
              /\ io' = io
              /\ vic' = vic
              /\ vic_bank_start' = vic_bank_start
              /\ cia' = cia]_vars

\* C17: 0x55 written to 0xE000 after writes that moved the VIC bank and set
\* a VIC register; the ROM byte and the earlier writes are all still there
C17_Witness ==
    /\ last.kind = "bus_write"
    /\ last.effect.addr = \hE000
    /\ last.effect.value = \h55
    /\ Mem(\hE000) = \h85
    /\ Cell(io, 0, \hDD00) = \h55
    /\ vic_bank_start = \h8000
    /\ vic.char_rom_enabled
    /\ vic.registers[32] = \hFF

----------------------------------------------------------------------------
(* VIC bank and character ROM overlay (SpecProg)                           *)

IsProgBankSwitch == Mem(57344) = \hA9 /\ Mem(57347) = \h00 /\ Mem(57348) = \h50

\* C18 as stated: after the CPU has written 0x03 and then 0x02 to 0xDD00 the
\* overlay is enabled, and a VIC read of bank-relative 0x1000 returns
\* character ROM byte 0 and not the RAM byte at bank base + 0x1000.
C18_OverlayAfterSecondWrite ==
    (IsProgBankSwitch /\ JustRan(\hE00C, \h8D)) =>
        /\ vic.char_rom_enabled
        /\ VicView_read(Ctx, \h1000) = char_rom(0)
        /\ VicView_read(Ctx, \h1000) # Mem((vic_bank_start + \h1000) % 65536)

\* C18: after the CPU has written 0x03 to 0xDD00 the overlay is enabled and
\* a VIC read of bank-relative 0x1000 returns character ROM byte 0; after it
\* has then written 0x02 the overlay is disabled and the bank base is 0x4000,
\* and the same read returns the RAM byte at 0x5000, not character ROM byte 0.
C18_BankSwitchOverlay ==
    /\ (IsProgBankSwitch /\ JustRan(\hE007, \h8D)) =>
            /\ vic.char_rom_enabled
            /\ vic_bank_start = 0
            /\ VicView_read(Ctx, \h1000) = char_rom(0)
    /\ (IsProgBankSwitch /\ JustRan(\hE00C, \h8D)) =>
            /\ ~vic.char_rom_enabled
            /\ vic_bank_start = \h4000
            /\ VicView_read(Ctx, \h1000) = Mem(\h5000)
            /\ VicView_read(Ctx, \h1000) # char_rom(0)

\* C18: the second STA $DD00 has been dispatched
C18_Witness ==
    /\ IsProgBankSwitch
    /\ JustRan(\hE00C, \h8D)
    /\ last.effect = WriteMem(\hDD00, \h02)
    /\ Cell(io, 0, \hDD00) = \h02
    /\ Mem(\h5000) = \h5A
    /\ vic_bank_start = \h4000
    /\ ~vic.char_rom_enabled

----------------------------------------------------------------------------
(* The raster counters (SpecVic)                                           *)

\* C19: the raster line is always in 0..311 and x always in 0..503 and a
\* multiple of 8; each VIC tick either adds 8 to x or sets x to 0 and
\* advances the line, which wraps from 311 to 0.
C19_RasterInvariant ==
    [][ticks' = ticks + 1 =>
        /\ vic.raster_line \in 0..311 /\ vic'.raster_line \in 0..311
        /\ vic.x_coord \in 0..503 /\ vic'.x_coord \in 0..503
        /\ vic.x_coord % 8 = 0 /\ vic'.x_coord % 8 = 0
        /\ \/ vic'.x_coord = vic.x_coord + 8 /\ vic'.raster_line = vic.raster_line
           \/ /\ vic'.x_coord = 0
              /\ vic'.raster_line = IF vic.raster_line = 311 THEN 0
                                    ELSE vic.raster_line + 1]_vars

\* C19: the tick that takes the raster from the end of line 311 to line 0
C19_Witness ==
    /\ last.kind = "vic_tick"
    /\ ticks = 63 * 312
    /\ vic.raster_line = 0
    /\ vic.x_coord = 0

\* C20: from line 0, x 0, after exactly 504 * 312 = 157248 ticks the VIC is
\* at line 0, x 0 again.
C20_CounterLaw ==
    ticks = 504 * 312 => (vic.raster_line = 0 /\ vic.x_coord = 0)

\* C20: tick 157248 has been taken
C20_Witness ==
    /\ last.kind = "vic_tick"
    /\ ticks = 157248
    /\ vic.raster_line = 0
    /\ vic.x_coord = 0

----------------------------------------------------------------------------
(* What the VIC paints (SpecFrame)                                         *)

IsProgBorder == Mem(57345) = \h06 /\ Mem(57349) = \hA2

IsProgScreen == Mem(57345) = \h03 /\ Mem(57350) = \h0E

\* Eight pixels of one palette entry
Solid(colour) == [i \in 1..8 |-> colour]

\* Outside the display window, on lines 8..bottom and columns 52..454
InFrameBorder(v, bottom) ==
    /\ ~InDisplayWindow(v)
    /\ v.raster_line >= 8 /\ v.raster_line <= bottom
    /\ v.x_coord >= 52 /\ v.x_coord <= 454

DisplayHasNoBorderPixel ==
    [][(ticks' = ticks + 1 /\ InDisplayWindow(vic)) =>
        /\ Len(last'.slice) = 8
        /\ \A i \in 1..8 : last'.slice[i] \in {0, 1}
        /\ hist.border % 16 \notin {0, 1} =>
                \A i \in 1..8 : last'.slice[i] # hist.border % 16]_vars

\* C22: at every tick whose line is below 8, or whose x is below 52 or above
\* 454, no pixel is drawn; and at a tick inside the display window no
\* border-coloured pixel is drawn.
C22_NothingOutsideFrame ==
    [][ticks' = ticks + 1 =>
        /\ (vic.raster_line < 8 \/ vic.x_coord < 52 \/ vic.x_coord > 454) =>
                last'.slice = <<>>
        /\ (InDisplayWindow(vic) /\ hist.border % 16 \notin {0, 1}) =>
                \A i \in DOMAIN last'.slice : last'.slice[i] # hist.border % 16]_vars

----------------------------------------------------------------------------
(* The debugger's run loop                                                 *)

\* The WriteMem arm of the run loop: the run pauses when the tick returned
\* Some(Effect::WriteMem { addr, .. }) with addr among the watchpoints
WatchpointPause(effect, watchpoints) == effect.some /\ effect.addr \in watchpoints

\* The addresses of main memory and of the I/O shadow whose byte the step changed
Changed ==
    {a \in (DOMAIN memory') \cup (DOMAIN io') :
        \/ Cell(memory', fill, a) # Cell(memory, fill, a)
        \/ Cell(io', 0, a) # Cell(io, 0, a)}

\* C24: during a run, whenever the CPU writes a byte to an address in the
\* watchpoint set, by a store, a read-modify-write instruction or a stack
\* push (PHA, PHP, JSR, IRQ entry), the run pauses right after that
\* instruction.
C24_Watchpoints ==
    [][ticks' = ticks + 1 =>
        \A a \in Changed : WatchpointPause(last'.effect, {a})]_vars

----------------------------------------------------------------------------
(* The CIA's interrupt registers and timer modes (SpecCia)                 *)

\* The step just taken read 0xDC0D
ReadIcr(step) == step.kind = "cia_read" /\ step.icr_read

\* C25: a read of 0xDC0D clears only the status: a read that follows at once
\* returns 0, and the mask is as the writes left it, so with the timer A
\* interrupt enabled an underflow in the tick after a read of 0xDC0D still
\* asserts the IRQ.
C25_IcrRead ==
    [][/\ (ReadIcr(last) /\ ReadIcr(last')) => last'.effect.value = 0
       /\ (ReadIcr(last) /\ hist.mask /\ last'.kind = "cia_tick" /\ last'.underflow)
              => last'.irq_in]_vars

\* The step just taken wrote 0xDC0D
WroteIcr(step) == step.kind = "cia_write" /\ step.effect.addr = 56333

\* C26: a write to 0xDC0D changes only the interrupt mask (bit 7 = 1 sets
\* the named bits, bit 7 = 0 clears them, the others are kept), never the
\* status: a read of 0xDC0D right after the write returns what the register
\* held before the write, and an underflow in the tick after the write
\* asserts the IRQ exactly when the timer A bit of the mask is set.
C26_IcrWrite ==
    [][/\ (WroteIcr(last) /\ ReadIcr(last')) => last'.effect.value = pre.cia.ics
       /\ (WroteIcr(last) /\ last'.kind = "cia_tick" /\ last'.underflow)
              => (last'.irq_in <=> hist.mask)]_vars

\* The step just taken wrote 0xDC0E with FORCE_LOAD (bit 4) set
ForcedLoad(step) ==
    step.kind = "cia_write" /\ step.effect.addr = 56334 /\ Bit(step.effect.value, 4) = 1

\* C27: a write to 0xDC0E with bit 4 (FORCE_LOAD) set copies the latch into
\* the timer value: a read of 0xDC04 (0xDC05) right after it returns the low
\* (high) byte last written to 0xDC04 (0xDC05).
C27_ForceLoad ==
    [][(ForcedLoad(last) /\ last'.kind = "cia_read")
          => /\ last'.effect.addr = 56324 => last'.effect.value = cia.timer_a_start % 256
             /\ last'.effect.addr = 56325 => last'.effect.value = cia.timer_a_start \div 256]_vars

\* The timer is started
Started(c) == And8(c.tacr, START_TIMER) # 0

\* C28: in one-shot mode (ONE_SHOT and START set) an underflow clears START
\* and sets status bit 0, and a tick with START clear changes nothing in the
\* CIA (value, latch, control register, status) and is no underflow: the
\* timer underflows once and rests until START is written again.
C28_OneShot ==
    [][last'.kind = "cia_tick"
          => /\ (last'.underflow /\ And8(cia.tacr, STOP_ON_UNDERFLOW) # 0)
                    => ~Started(cia') /\ Bit(cia'.ics, 0) = 1
             /\ ~Started(cia) => cia' = cia /\ ~last'.underflow /\ ~last'.irq_in]_vars

\* The tick after a one-shot underflow: the timer rests with status bit 0 set
C28_Witness ==
    /\ last.kind = "cia_tick" /\ ~last.underflow
    /\ ~Started(pre.cia) /\ cia = pre.cia
    /\ cia.tacr = STOP_ON_UNDERFLOW /\ Bit(cia.ics, 0) = 1 /\ cia.timer_a = 0

----------------------------------------------------------------------------
(* Accumulator shifts and PLA (SpecInstr)                                  *)

\* N and Z describe the byte
FlagsOf(c, value) == c.negative_flag = (value >= 128) /\ c.zero_flag = (value = 0)

\* C29: ASL A (0x0A) leaves (A * 2) mod 256 in the accumulator with C = old
\* bit 7, LSR A (0x4A) leaves A div 2 with C = old bit 0, and N and Z
\* describe the new accumulator.
C29_AccumulatorShifts ==
    /\ (last.kind = "instr" /\ last.opcode = \h0A) =>
           /\ cpu.accumulator = (pre.cpu.accumulator * 2) % 256
           /\ cpu.carry_flag = (pre.cpu.accumulator >= 128)
           /\ FlagsOf(cpu, cpu.accumulator)
    /\ (last.kind = "instr" /\ last.opcode = \h4A) =>
           /\ cpu.accumulator = pre.cpu.accumulator \div 2
           /\ cpu.carry_flag = (pre.cpu.accumulator % 2 = 1)
           /\ FlagsOf(cpu, cpu.accumulator)

\* C30: PLA (0x68) leaves the popped byte, the one at 0x0100 + the new stack
\* pointer, in the accumulator and sets N and Z from it.
C30_Pla ==
    (last.kind = "instr" /\ last.opcode = \h68) =>
        /\ cpu.stack_pointer = (pre.cpu.stack_pointer + 1) % 256
        /\ cpu.accumulator = Mem(256 + cpu.stack_pointer)
        /\ FlagsOf(cpu, cpu.accumulator)

----------------------------------------------------------------------------
(* SBC (SpecInstr)                                                         *)

SbcOpcodes == {\hE9, \hE5}

\* The byte read as a two's complement number
Signed(byte) == IF byte >= 128 THEN byte - 256 ELSE byte

\* C31: SBC of the operand M (the byte fill) with carry-in C leaves
\* (A - M - (1 - C)) mod 256 in the accumulator, sets C iff the old A >= M as
\* unsigned bytes, and sets V iff A - M - (1 - C), with A and M taken as
\* signed bytes, lies outside -128..127.
C31_Sbc ==
    (last.kind = "instr" /\ last.opcode \in SbcOpcodes) =>
        LET a == pre.cpu.accumulator
            borrow == IF pre.cpu.carry_flag THEN 0 ELSE 1
            diff == Signed(a) - Signed(fill) - borrow
        IN  /\ cpu.accumulator = (a - fill - borrow + 512) % 256
            /\ cpu.carry_flag = (a >= fill)
            /\ cpu.overflow_flag = (diff < -128 \/ diff > 127)

\* C31: 0x80 - 0x05 with carry set leaves 0x7B and sets V; 0x50 - 0x50 with
\* carry clear leaves 0xFF with C set
C31_Witness ==
    /\ last.kind = "instr" /\ last.opcode \in SbcOpcodes
    /\ \/ /\ pre.cpu.accumulator = \h80 /\ fill = \h05 /\ pre.cpu.carry_flag
          /\ cpu.accumulator = \h7B /\ cpu.overflow_flag /\ cpu.carry_flag
       \/ /\ pre.cpu.accumulator = \h50 /\ fill = \h50 /\ ~pre.cpu.carry_flag
          /\ cpu.accumulator = \hFF /\ ~cpu.overflow_flag /\ cpu.carry_flag

----------------------------------------------------------------------------
(* Stack pointer wraparound (SpecProg)                                     *)

\* PHA, PHP, JSR and PLA, PLP, RTS, RTI
StackOpcodes == {\h48, \h08, \h20, \h68, \h28, \h60, \h40}

\* C32: a push with SP = 0x00 writes to 0x0100 and leaves SP = 0xFF, a pop
\* with SP = 0xFF reads 0x0100 and leaves SP = 0x00, and no push or pop
\* faults, the push at SP = 0 (the value after power-on) included.
C32_StackWrap ==
    /\ ~(panicked /\ Mem(cpu.program_counter) \in StackOpcodes)
    /\ (last.kind = "instr" /\ last.opcode = \h48 /\ pre.cpu.stack_pointer = \h00) =>
            cpu.stack_pointer = \hFF /\ Mem(256) = pre.cpu.accumulator
    /\ (last.kind = "instr" /\ last.opcode = \h68 /\ pre.cpu.stack_pointer = \hFF) =>
            cpu.stack_pointer = \h00 /\ cpu.accumulator = Mem(256)

----------------------------------------------------------------------------
(* Cycle counts (SpecInstr)                                                *)

\* LDA abs,X; LDA abs,Y; CMP abs,X; ADC abs,Y and LDA (zp),Y; CMP (zp),Y
IndexedAbsolute == {\hBD, \hB9, \hDD, \h79}
IndexedIndirect == {\hB1, \hD1}

\* C33: an indexed read sets wait_cycles to its base count (4 for abs,X and
\* abs,Y, 5 for (zp),Y) when the base address (both of its bytes are fill)
\* and the effective address, base + index, are on the same page, and to one
\* more otherwise, wherever the instruction itself is located.
C33_PageCrossPenalty ==
    (last.kind = "instr" /\ last.opcode \in IndexedAbsolute \cup IndexedIndirect) =>
        LET base == fill * 256 + fill
            effective == (base + pre.cpu.index_x) % 65536
            count == IF last.opcode \in IndexedAbsolute THEN 4 ELSE 5
        IN  cpu.wait_cycles = IF (base \div 256) = (effective \div 256)
                              THEN count ELSE count + 1

\* LDA, LDX, LDY, ORA, EOR, ADC, SBC, CMP, CPX, CPY, BIT zp
ZeroPageReads == {\hA5, \hA6, \hA4, \h05, \h45, \h65, \hE5, \hC5, \hE4, \hC4, \h24}

\* ASL, LSR, ROR, INC, DEC zp
ZeroPageModifies == {\h06, \h46, \h66, \hE6, \hC6}

\* ASL, LSR, ROR zp,X
ZeroPageXModifies == {\h16, \h56, \h76}

\* C34: every zero-page read sets wait_cycles to 3, every zero-page
\* read-modify-write to 5 and every zero-page,X read-modify-write to 6.
C34_BaseCycleCounts ==
    last.kind = "instr" =>
        /\ last.opcode \in ZeroPageReads => cpu.wait_cycles = 3
        /\ last.opcode \in ZeroPageModifies => cpu.wait_cycles = 5
        /\ last.opcode \in ZeroPageXModifies => cpu.wait_cycles = 6

----------------------------------------------------------------------------
(* VIC bank selection (SpecBus)                                            *)

VicBanks == {\h0000, \h4000, \h8000, \hC000}

\* C35: the VIC bank base is always one of 0x0000, 0x4000, 0x8000, 0xC000;
\* a CPU write of v to 0xDD00 leaves the base at 0x4000 * (3 - (v & 3)) and
\* the overlay enable at ((v & 1) # 0); a write to any other address leaves
\* both as they were.
C35_VicBankSelection ==
    /\ [](vic_bank_start \in VicBanks)
    /\ [][last'.kind = "bus_write" =>
            IF last'.effect.addr = \hDD00
            THEN /\ vic_bank_start' = \h4000 * (3 - (last'.effect.value % 4))
                 /\ vic'.char_rom_enabled = (last'.effect.value % 2 = 1)
            ELSE /\ vic_bank_start' = vic_bank_start
                 /\ vic'.char_rom_enabled = vic.char_rom_enabled]_vars

\* C35: 0x55 has been written to 0xDD00 after another bank was selected
C35_Witness ==
    /\ last.kind = "bus_write"
    /\ last.effect = WriteMem(\hDD00, \h55)
    /\ vic_bank_start = \h8000
    /\ vic.char_rom_enabled
    /\ ticks > 1

----------------------------------------------------------------------------
(* Interrupts and the cycle counter over a run (SpecProg)                  *)

\* C36: between two IRQ entries the CPU dispatches at least one instruction:
\* the dispatch that follows an IRQ entry, with any ticks spent waiting in
\* between, is never another IRQ entry.
C36_ProgressBetweenIrqs ==
    [][hist.entered => last'.kind # "irq"]_vars

\* C37: wait_cycles stays within -1..6 under any sequence of ticks, the ticks
\* repeated after a decode error and those after an IRQ entry or an RTI
\* included, so the i8 never overflows.
C37_WaitCyclesRange == cpu.wait_cycles \in -1..6

IsProgIrqRti == Mem(57344) = \hA2 /\ Mem(57353) = \hA9 /\ Mem(57354) = \h89

\* The status byte of the CPU
StatusOf(c) == status_register_value([cpu |-> c])

\* C38: an RTI dispatched with SP three below its value at the latest IRQ
\* entry (the handler left the stack balanced) leaves PC at the address of
\* the interrupted instruction, SP at its value before the entry and all
\* seven flags (N, V, B, D, I, Z, C) at their values before the entry.
C38_IrqRtiRoundTrip ==
    (/\ last.kind = "instr" /\ last.opcode = \h40
     /\ hist.saved.some
     /\ pre.cpu.stack_pointer = (hist.saved.sp - 3) % 256) =>
        /\ cpu.program_counter = hist.saved.pc
        /\ cpu.stack_pointer = hist.saved.sp
        /\ StatusOf(cpu) = hist.saved.p

\* C38: the handler has cleared C and N and set Z, and its RTI has returned
\* to the loop at 0xE00E with C and N set and Z clear again
C38_Witness ==
    /\ IsProgIrqRti
    /\ JustRan(\hFF4B, \h40)
    /\ pre.cpu.zero_flag /\ ~pre.cpu.carry_flag /\ ~pre.cpu.negative_flag
    /\ cpu.program_counter = \hE00E
    /\ cpu.stack_pointer = \hFF
    /\ cpu.carry_flag /\ cpu.negative_flag /\ ~cpu.zero_flag

----------------------------------------------------------------------------
(* The raster period (SpecVic)                                             *)

\* C39: counted from (x = 0, line = 0) the raster is at (x = 0, line = 0)
\* exactly at the multiples of 63 * 312 = 19656 ticks, so the first return
\* comes after 19656 ticks, and every raster line is occupied for 63
\* consecutive ticks: the line is (ticks div 63) mod 312.
C39_RasterPeriod ==
    /\ (vic.x_coord = 0 /\ vic.raster_line = 0) <=> (ticks % (63 * 312) = 0)
    /\ vic.raster_line = (ticks \div 63) % 312

\* C39: the first tick of line 1 in the second frame
C39_Witness ==
    /\ last.kind = "vic_tick"
    /\ ticks = 63 * 312 + 63
    /\ vic.raster_line = 1
    /\ vic.x_coord = 0

----------------------------------------------------------------------------
(* The debugger's main loop.  hist holds the debugger: state is             *)
(* DebuggerState, prompt says that the loop waits for a command (otherwise  *)
(* it is inside the loop of the Run arm), breakpoints and watchpoints are   *)
(* the two sets, ran is the number of ticks the current run command has     *)
(* executed and cmds the number of commands read.                           *)

DbgPrograms == {ProgPushPop(\h80), ProgBankSwitch}

\* Addresses offered to the break command: 0xE009 starts an instruction of
\* ProgPushPop and 0xE005 one of ProgBankSwitch
DbgBreakAddrs == {\hE005, \hE009}

\* Addresses offered to the watch command
DbgWatchAddrs == {\hDD00}

MaxDbgTicks == 24

MaxDbgCommands == 4

\* A test that never finds a breakpoint
AtBreakpointNever(pc, breakpoints) == FALSE

\* debugger.breakpoints.contains(&machine.state.program_counter)
AtBreakpoint(pc, breakpoints) == pc \in breakpoints

\* machine.tick() called by the debugger, which then holds h
DbgTick(h, kind) ==
    /\ ~panicked
    /\ ticks < MaxDbgTicks
    /\ \E r \in {Machine_tick(Ctx)} :
           \/ /\ r.ovf \/ r.oob
              /\ panicked' = TRUE
              /\ last' = [last EXCEPT !.kind = "panic"]
              /\ UNCHANGED <<cpu, memory, fill, io, cia, vic, vic_bank_start, pre, hist, ticks>>
           \/ /\ ~r.oob
              /\ cpu' = r.cpu
              /\ memory' = r.memory
              /\ io' = r.io
              /\ cia' = r.cia
              /\ vic' = r.vic
              /\ vic_bank_start' = r.vic_bank_start
              /\ pre' = [cpu |-> cpu, cia |-> cia]
              /\ last' = [kind |-> kind, opcode |-> r.opcode, effect |-> r.effect,
                          irq_in |-> r.irq_in, icr_read |-> r.icr_read,
                          underflow |-> r.underflow, slice |-> r.slice, msg |-> r.msg]
              /\ hist' = IF kind = "run"
                         THEN [h EXCEPT
                                 !.ran = @ + 1,
                                 !.state = IF WatchpointPause(r.effect, h.watchpoints)
                                           THEN "Pause" ELSE @,
                                 !.prompt = WatchpointPause(r.effect, h.watchpoints)
                                              \/ r.kind = "error"]
                         ELSE h
              /\ ticks' = ticks + 1
              /\ UNCHANGED <<fill, panicked>>

\* A command that changes the debugger only: run, break, watch
DbgCommand(h) ==
    /\ ~panicked
    /\ hist.prompt
    /\ hist.cmds < MaxDbgCommands
    /\ hist' = [h EXCEPT !.cmds = @ + 1]
    /\ last' = [NoStep EXCEPT !.kind = "command"]
    /\ UNCHANGED <<cpu, memory, fill, io, cia, vic, vic_bank_start, pre, panicked, ticks>>

\* DebuggerCommand::Run: the next turn of the main loop enters the Run arm
DbgRun == DbgCommand([hist EXCEPT !.state = "Run", !.prompt = FALSE, !.ran = 0])

\* DebuggerCommand::AddBreakpoint
DbgAddBreakpoint ==
    \E addr \in DbgBreakAddrs :
        DbgCommand([hist EXCEPT !.state = "Pause", !.breakpoints = @ \cup {addr}])

\* DebuggerCommand::AddWatchpoint
DbgAddWatchpoint ==
    \E addr \in DbgWatchAddrs :
        DbgCommand([hist EXCEPT !.state = "Pause", !.watchpoints = @ \cup {addr}])

\* DebuggerCommand::Step and the Step arm: one tick, whatever it returns
DbgStep ==
    /\ hist.prompt
    /\ hist.cmds < MaxDbgCommands
    /\ DbgTick([hist EXCEPT !.state = "Step", !.cmds = @ + 1], "step")

\* One turn of the loop of the Run arm: pause at a breakpoint, else tick
DbgRunTurn ==
    /\ ~panicked
    /\ ~hist.prompt
    /\ IF AtBreakpoint(cpu.program_counter, hist.breakpoints)
       THEN /\ hist' = [hist EXCEPT !.state = "Pause", !.prompt = TRUE]
            /\ last' = [NoStep EXCEPT !.kind = "breakpoint"]
            /\ UNCHANGED <<cpu, memory, fill, io, cia, vic, vic_bank_start, pre, panicked,
                           ticks>>
       ELSE DbgTick(hist, "run")

NoDbg ==
    [state |-> "Pause", prompt |-> TRUE, breakpoints |-> {}, watchpoints |-> {},
     ran |-> 0, cmds |-> 0]

\* Machine::new, the ROM files loaded, machine.reset()
InitDbg ==
    /\ memory \in DbgPrograms
    /\ fill = 0
    /\ io = <<>>
    /\ cia = Cia1_new
    /\ vic = VicII_new
    /\ vic_bank_start = 49152                                       \* 0xC000
    /\ cpu = reset(PowerOn(memory)).cpu
    /\ panicked = FALSE
    /\ pre = [cpu |-> Mos6510_new, cia |-> Cia1_new]
    /\ last = NoStep
    /\ hist = NoDbg
    /\ ticks = 0

NextDbg == DbgRun \/ DbgAddBreakpoint \/ DbgAddWatchpoint \/ DbgStep \/ DbgRunTurn

SpecDbg == InitDbg /\ [][NextDbg]_vars

\* The machine
MachineVars == <<cpu, memory, io, cia, vic, vic_bank_start>>

\* C40: a run command issued while PC equals a breakpoint executes no tick,
\* pauses at once and leaves the machine as it was; whenever the machine
\* changes while PC equals a breakpoint, a step command did it.
C40_BreakpointHolds ==
    [][/\ (~hist.prompt /\ hist.ran = 0 /\ cpu.program_counter \in hist.breakpoints) =>
            /\ hist'.prompt /\ hist'.state = "Pause" /\ hist'.ran = 0
            /\ ticks' = ticks
            /\ MachineVars' = MachineVars
       /\ (cpu.program_counter \in hist.breakpoints /\ ticks' # ticks) =>
            hist'.state = "Step"]_vars

\* C40: a run has stopped at a breakpoint and the next run command has
\* paused there again without a tick
C40_Witness ==
    /\ last.kind = "breakpoint"
    /\ hist.prompt /\ hist.state = "Pause" /\ hist.ran = 0
    /\ cpu.program_counter \in hist.breakpoints
    /\ ticks > 0
    /\ hist.cmds >= 3

====
